---------------------------- MODULE Spec2Model ----------------------------
(***************************************************************************)
(* A model of the lofi generator's playback core: the LofiEngine state     *)
(* machine (engine.ts), the SongScheduler (song-scheduler.ts) driving the  *)
(* Tone transport, and the seeded song generator (rng.ts /                 *)
(* song-generator.ts, both held in instruments/piano.ts).                  *)
(*                                                                         *)
(* Musical time is counted in 32nd notes ("ticks"): the crackle callback   *)
(* repeats every "32n", a sixteenth is 2 ticks, a beat 8, a bar 32.        *)
(***************************************************************************)
EXTENDS Integers, Sequences, FiniteSets, TLC

VARIABLES
    \* ---- LofiEngine fields (engine.ts:34-37) ----
    currentSong,         \* Song | null
    scheduledIds,        \* number[]
    currentSectionName,  \* string
    params,              \* LofiParams (tempo, volume)
    \* ---- collaborators the engine drives ----
    timeline,            \* callbacks registered on the transport, oldest first
    transportState,      \* "stopped" | "started"
    position,            \* transport position, in bars
    bpm,                 \* transport.bpm.value
    masterGain,          \* mixer.masterGain.gain.value
    crackleBg,           \* mixer.crackleBg running
    voicesHeld,          \* an instrument voice was triggered and not released
    disposed,            \* instruments and mixer disposed
    pending,             \* start() calls suspended at `await Tone.start()`
    lastSerial,          \* identity of the last Song object built
    lastOp,              \* the kind of step that produced this state
    \* ---- scheduler harness (mock transport hooks) ----
    hSong,               \* the song handed to SongScheduler.schedule
    hOpts,               \* which hooks were passed
    hIds,                \* the id list schedule() returned
    hRegLog,             \* times of the registration calls, in call order
    hPhase,              \* "off" | "new" | "scheduled" | "cleared"
    hFired,              \* what the last advanced bar dispatched
    hEnds,               \* onSongEnd calls so far
    \* ---- calls of generateSong ----
    gSeed,               \* the seed both calls are given
    gCall,               \* the activation record of the call in progress
    gReturned            \* the songs returned so far

vars == << currentSong, scheduledIds, currentSectionName, params, timeline,
           transportState, position, bpm, masterGain, crackleBg, voicesHeld,
           disposed, pending, lastSerial, lastOp,
           hSong, hOpts, hIds, hRegLog, hPhase, hFired, hEnds,
           gSeed, gCall, gReturned >>

engineVars == << currentSong, scheduledIds, currentSectionName, params,
                 masterGain, crackleBg, voicesHeld, disposed, pending,
                 lastSerial, lastOp >>

transportVars == << timeline, transportState, position, bpm >>

harnessVars == << hSong, hOpts, hIds, hRegLog, hPhase, hFired, hEnds >>

genVars == << gSeed, gCall, gReturned >>

-----------------------------------------------------------------------------
(* Bounds of the model. *)

\* Seeds generateSong is called with: 0..MaxGenSeed.
MaxGenSeed == 24

\* Seeds the host or Date.now() may supply: 1..MaxSeed.
MaxSeed == 1
\* start() calls that may be suspended at `await Tone.start()` at once.
MaxPending == 2
\* Volume levels 0..MaxVolume the host may set (gain in units of 1/MaxVolume).
MaxVolume == 1
\* Bars the transport is followed past the longest sample song's end.
MaxOverrun == 1
\* Bars by which AudioContext time may be ahead of the transport position.
MaxAudioLead == 1

-----------------------------------------------------------------------------
(* Generic helpers. *)

Max(a, b) == IF a >= b THEN a ELSE b

Min(a, b) == IF a <= b THEN a ELSE b

RECURSIVE ConcatFrom(_, _, _)
ConcatFrom(ss, i, acc) ==
    IF i > Len(ss) THEN acc ELSE ConcatFrom(ss, i + 1, acc \o ss[i])

\* [...a, ...b, ...] over a sequence of sequences.
Concat(ss) == ConcatFrom(ss, 1, << >>)

\* arr.filter(...) keeping the elements whose index is in a set.
SelectIdx(s, keep(_)) == SelectSeq(s, keep)

Range(s) == { s[i] : i \in 1..Len(s) }

\* A sequence given by a rule, as the tuple of its elements.
ToSeq(f) == f \o << >>

RECURSIVE SumSeq(_)
SumSeq(s) == IF s = << >> THEN 0 ELSE Head(s) + SumSeq(Tail(s))

-----------------------------------------------------------------------------
(* Transport time strings "bar:beat:sixteenth".  A string is modelled as   *)
(* the sequence of its characters, so that formatting (template literal),  *)
(* splitting and parseInt are computed as the code computes them.          *)

DigitChars == << "0", "1", "2", "3", "4", "5", "6", "7", "8", "9" >>

Digits == { "0", "1", "2", "3", "4", "5", "6", "7", "8", "9" }

IsDigit(c) == c \in Digits

DigitOf ==
    ("0" :> 0) @@ ("1" :> 1) @@ ("2" :> 2) @@ ("3" :> 3) @@ ("4" :> 4) @@
    ("5" :> 5) @@ ("6" :> 6) @@ ("7" :> 7) @@ ("8" :> 8) @@ ("9" :> 9)

DigitValue(c) == DigitOf[c]

RECURSIVE NatToStr(_)
\* `${n}` for a non-negative integer n.
NatToStr(n) ==
    IF n < 10 THEN << DigitChars[n + 1] >>
    ELSE NatToStr(n \div 10) \o << DigitChars[(n % 10) + 1] >>

\* `${bar}:${beat}:${sixteenth}`
FormatTime(bar, beat, sixteenth) ==
    NatToStr(bar) \o << ":" >> \o NatToStr(beat) \o << ":" >> \o NatToStr(sixteenth)

RECURSIVE ScanParts(_, _, _, _, _)
\* s.split(":").map((x) => Number.parseInt(x, 10) || 0), read left to right:
\* parts are the pieces closed so far, acc the digits of the piece being
\* read, open whether parseInt is still reading its leading digits.
ScanParts(s, i, parts, acc, open) ==
    IF i > Len(s) THEN Append(parts, acc)
    ELSE IF s[i] = ":" THEN ScanParts(s, i + 1, Append(parts, acc), 0, TRUE)
    ELSE IF open /\ IsDigit(s[i])
         THEN ScanParts(s, i + 1, parts, acc * 10 + DigitValue(s[i]), TRUE)
         ELSE ScanParts(s, i + 1, parts, acc, FALSE)

\* parts[i] ?? 0
PartOr0(parts, i) == IF i <= Len(parts) THEN parts[i] ELSE 0

\* The `parse` closure of compareTransportTime: sixteenths since 0:0:0.
ParseSixteenths(s) ==
    LET parts == ScanParts(s, 1, << >>, 0, TRUE)
    IN  PartOr0(parts, 1) * 16 + PartOr0(parts, 2) * 4 + PartOr0(parts, 3)

RECURSIVE LexLess(_, _)
\* a < b in string (code unit) order; ":" sorts after the digits.
LexLess(a, b) ==
    LET rank(c) == IF IsDigit(c) THEN DigitValue(c) ELSE 10
    IN  IF b = << >> THEN FALSE
        ELSE IF a = << >> THEN TRUE
        ELSE IF rank(Head(a)) # rank(Head(b)) THEN rank(Head(a)) < rank(Head(b))
        ELSE LexLess(Tail(a), Tail(b))

\* The default (lexical) order Array.prototype.sort uses without a comparator.
compareLexical(a, b) == IF LexLess(a, b) THEN 0 - 1 ELSE IF LexLess(b, a) THEN 1 ELSE 0

compareTransportTime(a, b) == ParseSixteenths(a) - ParseSixteenths(b)

\* [...keys].sort(compareTransportTime): Array.prototype.sort is stable, so a
\* key's place is the number of keys that compare before it, ties going to the
\* key that came first.
SortTimes(keys) ==
    LET n == Len(keys)
        before(i, j) ==
            \E c \in { compareTransportTime(keys[i], keys[j]) } :
                c < 0 \/ (c = 0 /\ i < j)
        place == ToSeq([j \in 1..n |-> 1 + Cardinality({ i \in 1..n : before(i, j) })])
    IN  ToSeq([r \in 1..n |-> keys[CHOOSE j \in 1..n : place[j] = r]])

\* How the transport reads a "bar:beat:sixteenth" time: ticks (32nd notes).
TicksPerBar == 32

TransportTicks(s) == ParseSixteenths(s) * 2

\* Interval notations used with scheduleRepeat.
IntervalTicks(notation) == IF notation = "1m" THEN TicksPerBar ELSE 1

-----------------------------------------------------------------------------
(* Songs.  The scheduler and the engine treat a Song as data: sections     *)
(* with instrument and drum events at "bar:beat:sixteenth" times.          *)

NoSong == [serial |-> 0]

IsSong(x) == x.serial # 0

NoteEvent(time, note, duration, velocity, instrument) ==
    [time |-> time, note |-> note, duration |-> duration,
     velocity |-> velocity, instrument |-> instrument]

DrumEvent(time, instrument, velocity) ==
    [time |-> time, instrument |-> instrument, velocity |-> velocity]

Section(name, startBar, bars, instrumentEvents, drumEvents) ==
    [name |-> name, startBar |-> startBar, bars |-> bars,
     instrumentEvents |-> instrumentEvents, drumEvents |-> drumEvents]

\* Sample section content: per bar a two-note pad chord and a bass note on
\* the downbeat, a melody note on beat 2 (none in an intro), a texture hit in
\* a chorus; kick, snare and hi-hat hits (no snare in an intro).
SampleInstrumentEvents(name, startBar, bars) ==
    Concat([b \in 1..bars |->
        LET bar == startBar + b - 1 IN
        << NoteEvent(FormatTime(bar, 0, 0), "C3", "1n", 60, "pad"),
           NoteEvent(FormatTime(bar, 0, 0), "G3", "1n", 50, "pad"),
           NoteEvent(FormatTime(bar, 0, 0), "C2", "4n", 80, "bass") >>
        \o (IF name = "intro" THEN << >>
            ELSE << NoteEvent(FormatTime(bar, 2, 0), "E4", "8n", 70, "melody") >>)
        \o (IF name = "chorus"
            THEN << NoteEvent(FormatTime(bar, 3, 2), "G5", "4n", 20, "texture") >>
            ELSE << >>)])

SampleDrumEvents(name, startBar, bars) ==
    Concat([b \in 1..bars |->
        LET bar == startBar + b - 1 IN
        << DrumEvent(FormatTime(bar, 0, 0), "kick", 90) >>
        \o (IF name = "intro" THEN << >>
            ELSE << DrumEvent(FormatTime(bar, 1, 0), "snare", 70) >>)
        \o << DrumEvent(FormatTime(bar, 2, 2), "hihat", 40) >>])

RECURSIVE SampleSections(_, _)
\* The sections of a layout <<name, bars>>, ..., laid out from startBar.
SampleSections(layout, startBar) ==
    IF layout = << >> THEN << >>
    ELSE LET name == Head(layout)[1]
             bars == Head(layout)[2]
         IN  << Section(name, startBar, bars,
                        SampleInstrumentEvents(name, startBar, bars),
                        SampleDrumEvents(name, startBar, bars)) >>
             \o SampleSections(Tail(layout), startBar + bars)

LayoutBars(layout) == SumSeq([i \in 1..Len(layout) |-> layout[i][2]])

\* A melody that runs past its section (a motif longer than its two-bar
\* slot), appended when spill is TRUE: a note of the first section lands on
\* the first position of the section after it, and a note of the last
\* section on a position past the end of the song.
WithSpill(sections, totalBars, spill) ==
    IF ~spill THEN sections
    ELSE [sections EXCEPT
             ![1].instrumentEvents =
                 Append(@, NoteEvent(FormatTime(sections[1].bars, 0, 0), "D4", "4n", 55,
                                     "melody")),
             ![Len(sections)].instrumentEvents =
                 Append(@, NoteEvent(FormatTime(totalBars, 1, 0), "A4", "2n", 65, "melody"))]

SampleSong(seed, layout, spill) ==
    [serial |-> 1, seed |-> seed, preset |-> "Chillhop", key |-> "C",
     sections |-> WithSpill(SampleSections(layout, 0), LayoutBars(layout), spill),
     totalBars |-> LayoutBars(layout)]

\* Layouts of the songs the engine plays in this model.
EngineLayouts ==
    { << <<"verse", 1>>, <<"chorus", 1>> >>,
      << <<"intro", 1>>, <<"verse", 1>>, <<"outro", 1>> >> }

\* Layouts handed to the scheduler alone: one more, of 12 bars, so that bar
\* numbers of two digits occur.
HarnessLayouts ==
    EngineLayouts \cup
    { << <<"verse", 4>>, <<"chorus", 4>>, <<"verse", 4>> >> }

LongestEngineSong ==
    CHOOSE n \in { LayoutBars(l) : l \in EngineLayouts } :
        \A l \in EngineLayouts : LayoutBars(l) <= n

LongestHarnessSong ==
    CHOOSE n \in { LayoutBars(l) : l \in HarnessLayouts } :
        \A l \in HarnessLayouts : LayoutBars(l) <= n

-----------------------------------------------------------------------------
(* SongScheduler.schedule (song-scheduler.ts:37-161).                      *)

\* The events of all sections in the order the two inner loops visit them,
\* tagged with the list they are pushed to.
VisitedEvents(song) ==
    Concat([i \in 1..Len(song.sections) |->
        [j \in 1..Len(song.sections[i].instrumentEvents) |->
            [list |-> "instrument", e |-> song.sections[i].instrumentEvents[j]]]
        \o
        [j \in 1..Len(song.sections[i].drumEvents) |->
            [list |-> "drum", e |-> song.sections[i].drumEvents[j]]]])

\* A key list with one key for every event visited.
MapKeysAll(visited) == [k \in 1..Len(visited) |-> visited[k].e.time]

\* Keys of eventsByTime in insertion order (a Map keeps first-insertion
\* order): the time of every event that is the first one with that time.
MapKeys(visited) ==
    LET isFirst(i) == \A j \in 1..(i - 1) : visited[j].e.time # visited[i].e.time
        firsts == SelectSeq([i \in 1..Len(visited) |-> i], isFirst)
    IN  [k \in 1..Len(firsts) |-> visited[firsts[k]].e.time]

\* eventsByTime.get(time)
EventsAt(visited, time) ==
    LET pick(list) ==
            LET wanted(v) == v.list = list /\ v.e.time = time
                found == SelectSeq(visited, wanted)
            IN  [i \in 1..Len(found) |-> found[i].e]
    IN  [instrument |-> pick("instrument"), drum |-> pick("drum")]

\* const sortedTimes = [...eventsByTime.keys()].sort(compareTransportTime)
SortedTimes(visited) == SortTimes(MapKeys(visited))

\* One registration call on the transport.  kind: "events" | "bar" |
\* "crackle" | "end"; every = 0 for transport.schedule, the repeat interval
\* for transport.scheduleRepeat; time is the (start) time string passed.
Registration(kind, time, every, batch) ==
    [kind |-> kind, time |-> time, every |-> every, batch |-> batch]

\* What the per-bar closure reads of its song: each section's name and bars.
SectionSpans(song) ==
    [i \in 1..Len(song.sections) |->
        [name |-> song.sections[i].name, bars |-> song.sections[i].bars]]

NoBatch == [instrument |-> << >>, drum |-> << >>]

\* A song end registered one bar early.
SongEndTimeEarly(song) == FormatTime(song.totalBars - 1, 0, 0)

\* `${song.totalBars}:0:0`
SongEndTime(song) == FormatTime(song.totalBars, 0, 0)

\* The registration calls schedule() makes, in call order.
ScheduleCalls(song, opts) ==
    LET visited == VisitedEvents(song)
        sortedTimes == SortedTimes(visited)
    IN
    [i \in 1..Len(sortedTimes) |->
        Registration("events", sortedTimes[i], 0, EventsAt(visited, sortedTimes[i]))]
    \o (IF opts.onBar
        THEN << Registration("bar", FormatTime(0, 0, 0), IntervalTicks("1m"), NoBatch) >>
        ELSE << >>)
    \o << Registration("crackle", FormatTime(0, 0, 0), IntervalTicks("32n"), NoBatch) >>
    \o (IF opts.onSongEnd
        THEN << Registration("end", SongEndTime(song), 0, NoBatch) >>
        ELSE << >>)

\* The ids the transport hands out: fresh, increasing from the last one live.
NextId(tl) == IF tl = << >> THEN 1 ELSE tl[Len(tl)].id + 1

\* The callbacks schedule() leaves on the transport: each call with the id
\* the transport returned for it and the song whose closure it is.
TransportEntries(calls, song, firstId) ==
    [i \in 1..Len(calls) |->
        [id |-> firstId + i - 1, owner |-> song.serial, kind |-> calls[i].kind,
         at |-> TransportTicks(calls[i].time), every |-> calls[i].every,
         batch |-> calls[i].batch,
         spans |-> IF calls[i].kind = "bar" THEN SectionSpans(song) ELSE << >>]]

ScheduleEntries(song, opts, firstId) ==
    TransportEntries(ScheduleCalls(song, opts), song, firstId)

\* An id list that leaves out the crackle callback's id.
ScheduleIdsNoCrackle(entries) ==
    LET kept(r) == r.kind # "crackle"
        others == SelectSeq(ToSeq(entries), kept)
    IN  [i \in 1..Len(others) |-> others[i].id]

\* The ids pushed to `ids`: the transport's return value of every call.
ScheduleIds(entries) == [i \in 1..Len(entries) |-> entries[i].id]

\* transport.clear(id) for every id of a list.
ClearIds(tl, ids) ==
    LET gone == Range(ids)
        kept(r) == r.id \notin gone
    IN  SelectIdx(tl, kept)

-----------------------------------------------------------------------------
(* What the transport fires while it advances through one bar.             *)

\* Whether callback r is due at tick t.
DueAt(r, t) ==
    IF r.every = 0 THEN r.at = t
    ELSE t >= r.at /\ (t - r.at) % r.every = 0

\* The firings of one bar in firing order: by tick, then by registration.
BarFirings(tl, bar) ==
    LET from == bar * TicksPerBar
        inBar(r) == IF r.every = 0 THEN r.at >= from /\ r.at < from + TicksPerBar
                    ELSE r.at < from + TicksPerBar
        live == SelectIdx(tl, inBar)
    IN  Concat([k \in 1..TicksPerBar |->
            LET t == from + k - 1
                due(r) == DueAt(r, t)
                cbs == SelectIdx(live, due)
            IN  [i \in 1..Len(cbs) |-> [tick |-> t, cb |-> cbs[i]]]])

-----------------------------------------------------------------------------
(* The callbacks' bodies (song-scheduler.ts:78-146).                       *)

MelodicSynths ==
    { "pad", "melody", "bass", "texture", "subbass", "piano", "violin",
      "trumpet", "guitar", "contrabass" }

Trigger(voice, note, duration, velocity) ==
    [voice |-> voice, note |-> note, duration |-> duration, velocity |-> velocity]

\* An event callback that triggers the instrument events in array order.
BatchTriggersInArrayOrder(batch) ==
    LET hasSynth(e) == e.instrument \in MelodicSynths
        played == SelectIdx(batch.instrument, hasSynth)
    IN  [i \in 1..Len(played) |->
            Trigger(played[i].instrument, played[i].note, played[i].duration,
                    played[i].velocity)]
        \o [i \in 1..Len(batch.drum) |->
            Trigger(batch.drum[i].instrument, "", "32n", batch.drum[i].velocity)]

\* The triggerAttackRelease calls of one event callback, in call order: the
\* pad events with the first pad event's duration, the other instrument
\* events that have a synth, then the drum events.
BatchTriggers(batch) ==
    LET isPad(e)  == e.instrument = "pad"
        notPad(e) == e.instrument # "pad" /\ e.instrument \in MelodicSynths
        padEvents == SelectIdx(batch.instrument, isPad)
        others    == SelectIdx(batch.instrument, notPad)
    IN  [i \in 1..Len(padEvents) |->
            Trigger("pad", padEvents[i].note, padEvents[1].duration,
                    padEvents[i].velocity)]
        \o [i \in 1..Len(others) |->
            Trigger(others[i].instrument, others[i].note, others[i].duration,
                    others[i].velocity)]
        \o [i \in 1..Len(batch.drum) |->
            IF batch.drum[i].instrument = "kick"
            THEN Trigger("kick", "C2", "8n", batch.drum[i].velocity)
            ELSE Trigger(batch.drum[i].instrument, "", "32n",
                         batch.drum[i].velocity)]

RECURSIVE OwningSection(_, _, _)
\* The per-bar callback's scan: the name of the section holding `bar`,
\* "" when the loop ends without calling onBar.
OwningSection(spans, bar, acc) ==
    IF spans = << >> THEN ""
    ELSE IF bar >= acc /\ bar < acc + Head(spans).bars THEN Head(spans).name
    ELSE OwningSection(Tail(spans), bar, acc + Head(spans).bars)

\* Math.random() in the crackle callback, by the branch it selects.
CrackleDraws == { "tick", "pop", "none" }

-----------------------------------------------------------------------------
(* LofiEngine (engine.ts:28-178).  Its methods are written as functions    *)
(* from the state before to the state after, so that a method calling      *)
(* another is their composition, as in the code.                           *)

DefaultTempo == 75

Tempos == { DefaultTempo }

Volumes == 0..MaxVolume

\* DEFAULT_PARAMS (the fields the model follows; volume 1 is full gain).
DEFAULT_PARAMS == [tempo |-> DefaultTempo, volume |-> MaxVolume]

Seeds == 1..MaxSeed

\* The argument of a start() call; floating: the promise the call returns is
\* dropped by its caller.
NoSeed == [given |-> FALSE, seed |-> 0, floating |-> FALSE]

GivenSeed(s) == [given |-> TRUE, seed |-> s, floating |-> FALSE]

\* this.start(Date.now()) as a statement of randomize(): void
Floating(arg) == [arg EXCEPT !.floating = TRUE]

\* Where the transport position and the audio clock stop being followed:
\* past the end of every song nothing but the repeating callbacks is due.
MaxPosition == LongestEngineSong + MaxOverrun

St == [currentSong |-> currentSong, scheduledIds |-> scheduledIds,
       currentSectionName |-> currentSectionName, params |-> params,
       timeline |-> timeline, transportState |-> transportState,
       position |-> position, bpm |-> bpm,
       masterGain |-> masterGain, crackleBg |-> crackleBg,
       voicesHeld |-> voicesHeld, disposed |-> disposed,
       pending |-> pending, lastSerial |-> lastSerial]

\* op names the step: "start" and "startSeed" for a start() call without and
\* with a seed, "resume" and "play" for the two ways a start() continues after
\* the backend start, "randomize", "stop", "dispose", "songEnd" for the
\* song-end closure, "setParams"; "rejected" and "unhandled" for a start()
\* whose backend start fails, its promise rejecting at its caller or with
\* no one holding it; "other" for the rest.
Becomes(after, op) ==
    \E st \in { after } :
        /\ currentSong' = st.currentSong
        /\ scheduledIds' = st.scheduledIds
        /\ currentSectionName' = st.currentSectionName
        /\ params' = st.params
        /\ timeline' = st.timeline
        /\ transportState' = st.transportState
        /\ position' = st.position
        /\ bpm' = st.bpm
        /\ masterGain' = st.masterGain
        /\ crackleBg' = st.crackleBg
        /\ voicesHeld' = st.voicesHeld
        /\ disposed' = st.disposed
        /\ pending' = st.pending
        /\ lastSerial' = st.lastSerial
        /\ lastOp' = op

\* Song objects are told apart by a serial; three are enough to tell a new
\* song from the one it replaces and from the one before that.
NextSerial(n) == (n % 3) + 1

\* buildSong(seed): some song of the sample layouts, a new object.
BuiltSongs(st, seed) ==
    { [SampleSong(seed, layout, FALSE) EXCEPT !.serial = NextSerial(st.lastSerial)]
        : layout \in EngineLayouts }

clearScheduled(st) ==
    [st EXCEPT !.timeline = ClearIds(st.timeline, st.scheduledIds),
               !.scheduledIds = << >>]

\* transport.stop(): the transport halts and its position returns to 0.
transportStop(st) == [st EXCEPT !.transportState = "stopped", !.position = 0]

transportStart(st) == [st EXCEPT !.transportState = "started"]

releaseAll(st) == [st EXCEPT !.voicesHeld = FALSE]

setVolume(st, value) == [st EXCEPT !.masterGain = value]

\* Mixer.applyParams: the master gain follows volume only while it is > 0.
applyParamOverrides(st) ==
    [st EXCEPT !.bpm = st.params.tempo,
               !.masterGain = IF st.masterGain > 0 THEN st.params.volume
                              ELSE st.masterGain]

EngineHooks == [onBar |-> TRUE, onSongEnd |-> TRUE]

\* this.scheduler.schedule(song, {...}); this.scheduledIds.push(...ids)
scheduleSong(st, song) ==
    LET entries == ScheduleEntries(song, EngineHooks, NextId(st.timeline))
    IN  [st EXCEPT !.timeline = st.timeline \o entries,
                   !.scheduledIds = st.scheduledIds \o ScheduleIds(entries)]

\* playSong() without its clearScheduled() call.
playSongNoClear(st, song) ==
    LET s1 == [st EXCEPT !.currentSong = song, !.lastSerial = song.serial]
        s3 == setVolume(applyParamOverrides(s1), s1.params.volume)
        s4 == scheduleSong(s3, song)
    IN  transportStart([s4 EXCEPT !.crackleBg = TRUE])

playSong(st, song) ==
    LET s1 == [st EXCEPT !.currentSong = song, !.lastSerial = song.serial]
        s2 == clearScheduled(s1)
        s3 == setVolume(applyParamOverrides(s2), s2.params.volume)
        s4 == scheduleSong(s3, song)
    IN  transportStart([s4 EXCEPT !.crackleBg = TRUE])

\* The onSongEnd closure of playSong.
onSongEnd(st, nextSong) ==
    LET s1 == releaseAll([clearScheduled(transportStop(st)) EXCEPT !.crackleBg = FALSE])
        s2 == [s1 EXCEPT !.currentSong = NoSong, !.currentSectionName = ""]
        s3 == [s2 EXCEPT !.position = 0]
    IN  playSong(s3, nextSong)

\* start() up to its `await Tone.start()`: the rest runs when the backend
\* start resolves.
startCall(st, arg) == [st EXCEPT !.pending = Append(st.pending, arg)]

\* start() after the await, resume branch.
startResume(st) ==
    transportStart([setVolume(st, st.params.volume) EXCEPT !.crackleBg = TRUE])

\* A resume test that ignores the seed argument.
ResumeAlways(st, arg) == IsSong(st.currentSong)

ResumeBranch(st, arg) == IsSong(st.currentSong) /\ ~arg.given

\* randomize() without its clearScheduled() call.
randomizeNoClear(st, now) ==
    LET s1 == [st EXCEPT !.currentSong = NoSong, !.currentSectionName = ""]
        s2 == releaseAll([transportStop(s1) EXCEPT !.crackleBg = FALSE])
    IN  startCall(s2, Floating(GivenSeed(now)))

randomize(st, now) ==
    LET s1 == [clearScheduled(st) EXCEPT !.currentSong = NoSong,
                                         !.currentSectionName = ""]
        s2 == releaseAll([transportStop(s1) EXCEPT !.crackleBg = FALSE])
    IN  startCall(s2, Floating(GivenSeed(now)))

\* A stop() that also drops the current song.
stopForgets(st) ==
    [releaseAll(setVolume([transportStop(st) EXCEPT !.crackleBg = FALSE], 0))
        EXCEPT !.currentSong = NoSong]

stop(st) ==
    releaseAll(setVolume([transportStop(st) EXCEPT !.crackleBg = FALSE], 0))

\* A setParams that also drops the handle list.
setParamsForgets(st, p) ==
    [applyParamOverrides([st EXCEPT !.params = [f \in DOMAIN st.params |->
        IF f \in DOMAIN p THEN p[f] ELSE st.params[f]]]) EXCEPT !.scheduledIds = << >>]

setParams(st, p) ==
    applyParamOverrides([st EXCEPT !.params = [f \in DOMAIN st.params |->
        IF f \in DOMAIN p THEN p[f] ELSE st.params[f]]])

dispose(st) ==
    [clearScheduled(stop(st)) EXCEPT !.currentSong = NoSong, !.disposed = TRUE]

\* The partial parameter sets the host passes to setParams.
ParamUpdates ==
    { [tempo |-> t] : t \in Tempos } \cup { [volume |-> v] : v \in Volumes }
    \cup { DEFAULT_PARAMS }

-----------------------------------------------------------------------------
(* The transport firing the engine's callbacks.                            *)

HasMelodicTrigger(batch) ==
    \E i \in 1..Len(BatchTriggers(batch)) :
        BatchTriggers(batch)[i].voice \in MelodicSynths

\* One callback of the engine's schedule firing.  The per-bar callback derives
\* its bar from the callback's time argument, which the transport gives in
\* AudioContext time: `audioBar` bars at the current tempo.
fireCallback(st, cb, audioBar) ==
    IF cb.kind = "events"
    THEN [st EXCEPT !.voicesHeld = st.voicesHeld \/ HasMelodicTrigger(cb.batch)]
    ELSE IF cb.kind = "bar"
    THEN LET name == OwningSection(cb.spans, audioBar, 0)
         IN  IF name = "" THEN st ELSE [st EXCEPT !.currentSectionName = name]
    ELSE st

RECURSIVE fireFrom(_, _, _, _, _)
fireFrom(st, firings, i, n, audioBar) ==
    IF i > n THEN st
    ELSE fireFrom(fireCallback(st, firings[i].cb, audioBar), firings, i + 1, n, audioBar)

\* The first n firings of a bar, in order.
fireAll(st, firings, n, audioBar) == fireFrom(st, firings, 1, n, audioBar)

EndIndex(firings) ==
    IF \E i \in 1..Len(firings) : firings[i].cb.kind = "end"
    THEN CHOOSE i \in 1..Len(firings) :
             /\ firings[i].cb.kind = "end"
             /\ \A j \in 1..(i - 1) : firings[j].cb.kind # "end"
    ELSE 0

-----------------------------------------------------------------------------
(* Engine actions. *)

HarnessIdle ==
    /\ hSong = NoSong
    /\ hOpts = [onBar |-> FALSE, onSongEnd |-> FALSE]
    /\ hIds = << >>
    /\ hRegLog = << >>
    /\ hPhase = "off"
    /\ hFired = << >>
    /\ hEnds = 0

EngineInit ==
    /\ currentSong = NoSong
    /\ scheduledIds = << >>
    /\ currentSectionName = ""
    /\ params = DEFAULT_PARAMS
    /\ timeline = << >>
    /\ transportState = "stopped"
    /\ position = 0
    /\ bpm = 120
    /\ masterGain = MaxVolume
    /\ crackleBg = FALSE
    /\ voicesHeld = FALSE
    /\ disposed = FALSE
    /\ pending = << >>
    /\ lastSerial = 0
    /\ lastOp = "other"

\* No call of generateSong is in progress.
NoCall == [pc |-> "idle"]

GenIdle ==
    /\ gSeed = 0
    /\ gCall = NoCall
    /\ gReturned = << >>

Init == EngineInit /\ HarnessIdle /\ GenIdle

\* The host calls start(seed?): the call runs to `await Tone.start()`.
Start ==
    /\ ~disposed
    /\ Len(pending) < MaxPending
    /\ \E arg \in { NoSeed } \cup { GivenSeed(s) : s \in Seeds } :
           Becomes(startCall(St, arg), IF arg.given THEN "startSeed" ELSE "start")
    /\ UNCHANGED << harnessVars, genVars >>

\* The backend start resolves and the oldest suspended start() continues.
StartResumes ==
    /\ pending # << >>
    /\ ResumeBranch(St, Head(pending))
    /\ Becomes(startResume([St EXCEPT !.pending = Tail(pending)]), "resume")
    /\ UNCHANGED << harnessVars, genVars >>

StartPlays ==
    /\ pending # << >>
    /\ ~ResumeBranch(St, Head(pending))
    /\ \E seed \in (IF Head(pending).given THEN { Head(pending).seed } ELSE Seeds) :
       \E song \in BuiltSongs(St, seed) :
           Becomes(playSong([St EXCEPT !.pending = Tail(pending)], song), "play")
    /\ UNCHANGED << harnessVars, genVars >>

\* The backend start fails: the suspended start() rejects and does no more.
StartFails ==
    /\ pending # << >>
    /\ Becomes([St EXCEPT !.pending = Tail(pending)],
               IF Head(pending).floating THEN "unhandled" ELSE "rejected")
    /\ UNCHANGED << harnessVars, genVars >>

Randomize ==
    /\ ~disposed
    /\ Len(pending) < MaxPending
    /\ \E now \in Seeds : Becomes(randomize(St, now), "randomize")
    /\ UNCHANGED << harnessVars, genVars >>

Stop ==
    /\ ~disposed
    /\ Becomes(stop(St), "stop")
    /\ UNCHANGED << harnessVars, genVars >>

SetParams ==
    /\ ~disposed
    /\ \E p \in ParamUpdates : Becomes(setParams(St, p), "setParams")
    /\ UNCHANGED << harnessVars, genVars >>

Dispose ==
    /\ ~disposed
    /\ Becomes(dispose(St), "dispose")
    /\ UNCHANGED << harnessVars, genVars >>

\* The transport plays one bar in which no song-end callback is due.  The
\* AudioContext clock is at or ahead of the transport position.
TransportTick ==
    /\ transportState = "started"
    /\ \E firings \in { BarFirings(timeline, position) } :
           /\ EndIndex(firings) = 0
           /\ \E lead \in 0..MaxAudioLead :
                  Becomes([fireAll(St, firings, Len(firings), position + lead) EXCEPT
                              !.position = Min(position + 1, MaxPosition)], "other")
    /\ UNCHANGED << harnessVars, genVars >>

\* The transport reaches a song-end callback: the callbacks due before it
\* fire, then the onSongEnd closure runs.
SongEnd ==
    /\ transportState = "started"
    /\ \E firings \in { BarFirings(timeline, position) } :
           /\ EndIndex(firings) > 0
           /\ \E lead \in 0..MaxAudioLead :
              \E now \in Seeds :
              \E song \in BuiltSongs(St, now) :
                  Becomes(onSongEnd(fireAll(St, firings, EndIndex(firings) - 1,
                                            position + lead), song), "songEnd")
    /\ UNCHANGED << harnessVars, genVars >>

Next ==
    \/ Start
    \/ StartResumes
    \/ StartPlays
    \/ StartFails
    \/ Randomize
    \/ Stop
    \/ SetParams
    \/ Dispose
    \/ TransportTick
    \/ SongEnd

Spec == Init /\ [][Next]_vars

-----------------------------------------------------------------------------
(* Properties of the engine.                                               *)

\* C2: every callback registered on the transport was registered for the
\* engine's current song and its id is in scheduledIds; so callbacks of two
\* different songs are never registered together.
OneScheduleActive ==
    \A i \in 1..Len(timeline) :
        /\ IsSong(currentSong)
        /\ timeline[i].owner = currentSong.serial
        /\ timeline[i].id \in Range(scheduledIds)

\* A song end has just replaced the song and the new schedule is registered.
OneScheduleActiveWitness ==
    /\ lastOp = "songEnd"
    /\ IsSong(currentSong)
    /\ Len(timeline) > 0
    /\ Len(scheduledIds) = Len(timeline)

NoneSurvive == \A i \in 1..Len(timeline) : timeline[i] \notin Range(timeline')

DisposeIsTerminal ==
    disposed => /\ timeline = << >>
                /\ ~IsSong(currentSong)
                /\ transportState = "stopped"

\* C7: when a start() continues after the backend start, it generates no
\* song if a song is current and no seed was given (song, handles and
\* callbacks stay, the volume is restored, the transport started); otherwise
\* it builds exactly one song, makes it current and schedules it.
StartGeneratesWhenNeeded ==
    [][lastOp' \in { "resume", "play" } =>
        IF IsSong(currentSong) /\ ~Head(pending).given
        THEN /\ currentSong' = currentSong
             /\ lastSerial' = lastSerial
             /\ scheduledIds' = scheduledIds
             /\ timeline' = timeline
             /\ masterGain' = params.volume
             /\ transportState' = "started"
        ELSE /\ lastSerial' = NextSerial(lastSerial)
             /\ IsSong(currentSong')
             /\ currentSong'.serial = lastSerial'
             /\ Head(pending).given => currentSong'.seed = Head(pending).seed
             /\ Len(scheduledIds') > 0
             /\ \A i \in 1..Len(timeline') :
                    /\ timeline'[i].owner = currentSong'.serial
                    /\ timeline'[i].id \in Range(scheduledIds')
             /\ transportState' = "started"]_vars

\* A start() without seed is waiting for the backend while a song is current
\* and another start(), with a seed, waits behind it.
StartGeneratesWhenNeededWitness ==
    /\ Len(pending) = 2
    /\ ~pending[1].given
    /\ pending[2].given
    /\ IsSong(currentSong)
    /\ transportState = "stopped"

\* C8: stop() halts the transport, sets the master gain to 0, releases the
\* voices and leaves currentSong as it was, so that a start() without seed
\* takes the resume branch, and resuming keeps that song and builds none.
StopPreservesSong ==
    [][/\ lastOp' = "stop" =>
              /\ currentSong' = currentSong
              /\ lastSerial' = lastSerial
              /\ transportState' = "stopped"
              /\ masterGain' = 0
              /\ ~voicesHeld'
              /\ IsSong(currentSong) => ResumeBranch(St, NoSeed)'
       /\ lastOp' = "resume" =>
              /\ currentSong' = currentSong
              /\ lastSerial' = lastSerial
              /\ timeline' = timeline]_vars

\* A stopped engine that still holds its song, at full volume setting.
StopPreservesSongWitness ==
    /\ lastOp = "stop"
    /\ IsSong(currentSong)
    /\ transportState = "stopped"
    /\ position = 0
    /\ masterGain = 0
    /\ params.volume > 0
    /\ ~voicesHeld
    /\ pending = << >>
    /\ ~disposed

\* The engine plays: a song is current and the transport runs.
Playing == IsSong(currentSong) /\ transportState = "started"

\* C13: while the engine is Playing, a call setParams({volume: v}) leaves the
\* master gain at v, for every volume v and whatever was set before.
LiveVolume ==
    [][\A v \in Volumes :
           (/\ Playing
            /\ lastOp' = "setParams"
            /\ St' = setParams(St, [volume |-> v]))
           => masterGain' = v]_vars

\* C14: setParams leaves the current song, the handle list and the callbacks
\* registered on the transport as they were, and with them everything but
\* the stored params, the transport tempo and the gains.
SetParamsFrame ==
    [][lastOp' = "setParams" =>
           /\ currentSong' = currentSong
           /\ lastSerial' = lastSerial
           /\ scheduledIds' = scheduledIds
           /\ timeline' = timeline
           /\ transportState' = transportState
           /\ position' = position
           /\ pending' = pending
           /\ currentSectionName' = currentSectionName
           /\ crackleBg' = crackleBg
           /\ voicesHeld' = voicesHeld
           /\ disposed' = disposed
           /\ bpm' = params'.tempo]_vars

\* setParams has changed the volume of an engine that plays a scheduled song
\* while a start() is waiting for the backend.
SetParamsFrameWitness ==
    /\ lastOp = "setParams"
    /\ Playing
    /\ Len(timeline) > 0
    /\ Len(scheduledIds) = Len(timeline)
    /\ position > 0
    /\ pending # << >>
    /\ params.volume # DEFAULT_PARAMS.volume
    /\ masterGain = params.volume

\* Every registration of the current song's schedule is on the transport.
WholeSchedule ==
    IsSong(currentSong) =>
        /\ Len(timeline) > 0
        /\ timeline = ToSeq(ScheduleEntries(currentSong, EngineHooks, timeline[1].id))

\* C15: when the backend start of a start() call fails (a call by the host
\* or the one randomize() makes), the failure reaches the caller as a
\* rejection, the call is over without a retry, no song is built or
\* scheduled and the transport is left as it was; and a current song is
\* never only partly scheduled.
BackendFailure ==
    /\ []WholeSchedule
    /\ [][lastOp' \in { "rejected", "unhandled" } =>
              /\ lastOp' = "rejected"
              /\ pending' = Tail(pending)
              /\ currentSong' = currentSong
              /\ lastSerial' = lastSerial
              /\ scheduledIds' = scheduledIds
              /\ timeline' = timeline
              /\ transportState' = transportState]_vars

\* C19: whenever playSong registers a song's schedule while another song was
\* current (a start() continuing after the backend start, or the song-end
\* closure), the previous song is fully unscheduled and silent: no callback
\* of the previous schedule is left on the transport, the transport has been
\* stopped since the previous song last played a bar (its position is back
\* at 0) and no voice triggered by the previous song is still held.
SupersedeAfterRelease ==
    [][(lastOp' \in { "play", "songEnd" } /\ IsSong(currentSong)) =>
           /\ currentSong'.serial # currentSong.serial
           /\ \A i \in 1..Len(timeline') : timeline'[i].owner = currentSong'.serial
           /\ position' = 0
           /\ ~voicesHeld']_vars

\* C25: a start() that was waiting for the backend when stop() was called
\* does not undo the stop: when the step after stop() is such a start()
\* continuing, the transport is still stopped and the master gain still 0.
StopHolds ==
    [][(lastOp = "stop" /\ lastOp' \in { "resume", "play" }) =>
           /\ transportState' = "stopped"
           /\ masterGain' = 0]_vars

\* getCurrentInfo()
getCurrentInfo(st) ==
    IF ~IsSong(st.currentSong)
    THEN [preset |-> "", section |-> "", key |-> ""]
    ELSE [preset |-> st.currentSong.preset, section |-> st.currentSectionName,
          key |-> st.currentSong.key]

\* C27: while a song is current, the section getCurrentInfo() reports is ""
\* or the name of a section of that song; with no song current it reports
\* empty strings for preset, section and key.
ReportedSectionIsCurrent ==
    IF IsSong(currentSong)
    THEN \/ getCurrentInfo(St).section = ""
         \/ \E i \in 1..Len(currentSong.sections) :
                currentSong.sections[i].name = getCurrentInfo(St).section
    ELSE getCurrentInfo(St) = [preset |-> "", section |-> "", key |-> ""]

-----------------------------------------------------------------------------
(* SongScheduler.schedule alone, on a mock transport that records the       *)
(* registration calls and is advanced bar by bar, with hooks that record    *)
(* what is dispatched.                                                      *)

HookSets == [onBar : BOOLEAN, onSongEnd : BOOLEAN]

MaxHarnessPosition == LongestHarnessSong + MaxOverrun

\* What one firing dispatches to the instruments and the hooks.
Dispatches(f, audioBar, draw) ==
    IF f.cb.kind = "events"
    THEN LET triggers == BatchTriggers(f.cb.batch)
         IN  [i \in 1..Len(triggers) |->
                 [kind |-> "trigger", tick |-> f.tick, what |-> triggers[i].voice]]
    ELSE IF f.cb.kind = "bar"
    THEN LET name == OwningSection(f.cb.spans, audioBar, 0)
         IN  IF name = "" THEN << >>
             ELSE << [kind |-> "onBar", tick |-> f.tick, what |-> name] >>
    ELSE IF f.cb.kind = "crackle"
    THEN IF draw = "none" THEN << >>
         ELSE << [kind |-> "trigger", tick |-> f.tick, what |-> "crackle"] >>
    ELSE << [kind |-> "onSongEnd", tick |-> f.tick, what |-> ""] >>

AllDispatches(firings, audioBar, draw) ==
    Concat([i \in 1..Len(firings) |-> Dispatches(firings[i], audioBar, draw)])

CountEnds(fired) == Cardinality({ i \in 1..Len(fired) : fired[i].kind = "onSongEnd" })

SchedInit ==
    /\ EngineInit
    /\ hSong = NoSong
    /\ hOpts = [onBar |-> FALSE, onSongEnd |-> FALSE]
    /\ hIds = << >>
    /\ hRegLog = << >>
    /\ hPhase = "new"
    /\ hFired = << >>
    /\ hEnds = 0
    /\ GenIdle

\* const ids = scheduler.schedule(song, options)
HSchedule ==
    /\ hPhase = "new"
    /\ \E layout \in HarnessLayouts : \E spill \in BOOLEAN : \E opts \in HookSets :
       \E song \in { SampleSong(1, layout, spill) } :
       \E calls \in { ScheduleCalls(song, opts) } :
       \E entries \in { TransportEntries(calls, song, NextId(timeline)) } :
           /\ hSong' = song
           /\ hOpts' = opts
           /\ timeline' = timeline \o entries
           /\ hIds' = ScheduleIds(entries)
           /\ hRegLog' = [i \in 1..Len(calls) |->
                             [kind |-> calls[i].kind, time |-> calls[i].time]]
    /\ hPhase' = "scheduled"
    /\ UNCHANGED << hFired, hEnds, transportState, position, bpm, engineVars, genVars >>

\* The mock transport plays one bar.  The crackle callback's Math.random()
\* falls in one of its three ranges (the same for the whole bar).
HAdvance ==
    /\ hPhase \in { "scheduled", "cleared" }
    /\ position < MaxHarnessPosition
    /\ \E firings \in { BarFirings(timeline, position) } :
       \E draw \in CrackleDraws : \E lead \in 0..MaxAudioLead :
       \E fired \in { AllDispatches(firings, position + lead, draw) } :
           /\ hFired' = fired
           /\ hEnds' = hEnds + CountEnds(fired)
    /\ position' = position + 1
    /\ UNCHANGED << hSong, hOpts, hIds, hRegLog, hPhase, timeline, transportState,
                    bpm, engineVars, genVars >>

\* for (const id of ids) transport.clear(id)
HClear ==
    /\ hPhase = "scheduled"
    /\ timeline' = ClearIds(timeline, hIds)
    /\ hPhase' = "cleared"
    /\ hFired' = << >>
    /\ UNCHANGED << hSong, hOpts, hIds, hRegLog, hEnds, transportState, position,
                    bpm, engineVars, genVars >>

SchedNext == HSchedule \/ HAdvance \/ HClear

SchedSpec == SchedInit /\ [][SchedNext]_vars

-----------------------------------------------------------------------------
(* Properties of SongScheduler.schedule.                                    *)

\* C4: the returned id list holds the id of every registration the call
\* made, and once every returned id is cleared nothing is registered and a
\* bar played afterwards dispatches nothing: no instrument, drum or crackle
\* trigger, no onBar and no onSongEnd call.
CancellationComplete ==
    /\ hPhase = "scheduled" =>
           /\ Len(hIds) = Len(hRegLog)
           /\ \A i \in 1..Len(timeline) : timeline[i].id \in Range(hIds)
    /\ hPhase = "cleared" =>
           /\ timeline = << >>
           /\ hFired = << >>

\* A schedule with both hooks was cleared before its song end and the
\* transport has since played past the end of the song.
CancellationCompleteWitness ==
    /\ hPhase = "cleared"
    /\ hOpts.onBar
    /\ hOpts.onSongEnd
    /\ Len(hIds) > 3
    /\ hEnds = 0
    /\ position > hSong.totalBars

\* C9: for a song scheduled with an onSongEnd hook, onSongEnd has been
\* called once when the transport has played through totalBars:0:0 and not
\* at all before, and every call happens at totalBars:0:0.
SongEndFiresOnce ==
    (hPhase = "scheduled" /\ hOpts.onSongEnd) =>
        /\ hEnds = (IF position > hSong.totalBars THEN 1 ELSE 0)
        /\ \A i \in 1..Len(hFired) :
               hFired[i].kind = "onSongEnd" =>
                   hFired[i].tick = hSong.totalBars * TicksPerBar

\* A song of 12 bars has been played through 12:0:0 and one bar further.
SongEndFiresOnceWitness ==
    /\ hPhase = "scheduled"
    /\ hOpts.onSongEnd
    /\ hSong.totalBars = 12
    /\ position = 13
    /\ hEnds = 1

\* A time string decoded to (bar, beat, sixteenth).
TimeParts(s) ==
    LET parts == ScanParts(s, 1, << >>, 0, TRUE)
    IN  << PartOr0(parts, 1), PartOr0(parts, 2), PartOr0(parts, 3) >>

\* x <= y in the composite order of (bar, beat, sixteenth).
CompositeLeq(x, y) ==
    \/ x[1] < y[1]
    \/ x[1] = y[1] /\ x[2] < y[2]
    \/ x[1] = y[1] /\ x[2] = y[2] /\ x[3] <= y[3]

OnBarCalls(fired) ==
    LET isOnBar(d) == d.kind = "onBar"
        calls == SelectIdx(fired, isOnBar)
    IN  [i \in 1..Len(calls) |-> calls[i].what]

\* The names of the sections whose first bar is `bar`.
SectionsEntered(song, bar) ==
    LET entered(s) == s.startBar = bar
        found == SelectIdx(song.sections, entered)
    IN  [i \in 1..Len(found) |-> found[i].name]

\* C16: while one song plays without interruption, the bar that enters a
\* section calls onBar once with that section's name, and a later bar of the
\* same section does not call onBar.
SectionEntryHook ==
    [][(/\ hPhase = "scheduled"
        /\ hOpts.onBar
        /\ position < hSong.totalBars
        /\ position' = position + 1)
       => OnBarCalls(hFired') = SectionsEntered(hSong, position)]_vars

\* The indices of the event registrations in the call log.
EventCalls == { i \in 1..Len(hRegLog) : hRegLog[i].kind = "events" }

\* The events of one list at a musical position <<bar, beat, sixteenth>>,
\* in visiting order.
EventsAtPosition(visited, list, p) ==
    LET wanted(v) == v.list = list /\ TimeParts(v.e.time) = p
        found == SelectIdx(visited, wanted)
    IN  [i \in 1..Len(found) |-> found[i].e]

\* C20: schedule() registers exactly one event callback for every musical
\* position that occurs among the instrument and drum events of all
\* sections, and the batch of the callback registered for a position holds
\* the events at that position and no other; so every event is in exactly
\* one batch, and two events share a batch exactly when they have the same
\* (bar, beat, sixteenth).
OneCallbackPerPosition ==
    hPhase = "scheduled" =>
        /\ Len(timeline) = Len(hRegLog)
        /\ { TimeParts(hRegLog[i].time) : i \in EventCalls }
               = { TimeParts(v.e.time) : v \in Range(VisitedEvents(hSong)) }
        /\ \A i, j \in EventCalls :
               TimeParts(hRegLog[i].time) = TimeParts(hRegLog[j].time) => i = j
        /\ \A i \in EventCalls :
               timeline[i].batch =
                   [instrument |-> EventsAtPosition(VisitedEvents(hSong), "instrument",
                                                    TimeParts(hRegLog[i].time)),
                    drum |-> EventsAtPosition(VisitedEvents(hSong), "drum",
                                              TimeParts(hRegLog[i].time))]

\* The twelve-bar song with an event past its end is scheduled: the callback
\* of the second section's first position holds four instrument events (one
\* of them the first section's) and a drum event,
\* and the event past the end has a callback of its own.
OneCallbackPerPositionWitness ==
    /\ hPhase = "scheduled"
    /\ hSong.totalBars = 12
    /\ \E i, j \in EventCalls :
           /\ hRegLog[i].time = FormatTime(4, 0, 0)
           /\ Len(timeline[i].batch.instrument) = 4
           /\ Len(timeline[i].batch.drum) = 1
           /\ hRegLog[j].time = FormatTime(12, 1, 0)
           /\ Len(timeline[j].batch.instrument) = 1
           /\ timeline[j].batch.drum = << >>

\* The voices triggered by the events of one musical position, as the claim
\* orders them: the pad events, then the other instrument events in array
\* order, then the drum events in array order.
PositionVoices(song, p) ==
    LET isPad(e)  == e.instrument = "pad"
        notPad(e) == e.instrument # "pad"
        instrument == EventsAtPosition(VisitedEvents(song), "instrument", p)
        drum       == EventsAtPosition(VisitedEvents(song), "drum", p)
        ordered    == SelectIdx(instrument, isPad) \o SelectIdx(instrument, notPad) \o drum
    IN  [i \in 1..Len(ordered) |->
            [kind |-> "trigger", tick |-> TransportTicks(FormatTime(p[1], p[2], p[3])),
             what |-> ordered[i].instrument]]

\* The instrument and drum triggers of a bar, position after position.
BarVoices(song, bar) ==
    Concat([k \in 1..16 |-> PositionVoices(song, << bar, (k - 1) \div 4, (k - 1) % 4 >>)])

\* The triggers of the song's events among what was dispatched.
EventTriggers(fired) ==
    LET ofEvent(d) == d.kind = "trigger" /\ d.what # "crackle"
    IN  SelectIdx(fired, ofEvent)

\* C21: what a bar dispatches to the instruments is, position after position
\* in musical-time order, the pad events of the position, then its other
\* instrument events in array order each on the voice of its tag, then its
\* drum events in array order.
DispatchOrder ==
    (hPhase = "scheduled" /\ position > 0) =>
        EventTriggers(hFired) = BarVoices(hSong, position - 1)

\* The bar that opens the second section of the twelve-bar song has played
\* with a melody note of the first section on its first position: the pads
\* were triggered before that note, the bass after it, the kick last.
DispatchOrderWitness ==
    /\ hPhase = "scheduled"
    /\ hSong.totalBars = 12
    /\ position = 5
    /\ Len(EventTriggers(hFired)) >= 9
    /\ [i \in 1..5 |-> EventTriggers(hFired)[i].what]
           = << "pad", "pad", "melody", "bass", "kick" >>
    /\ hSong.sections[1].instrumentEvents[Len(hSong.sections[1].instrumentEvents)].time
           = FormatTime(4, 0, 0)

-----------------------------------------------------------------------------
(* Playback that is never stopped: the host calls setParams, start and      *)
(* randomize only, and the backend start always resolves.                   *)

UnstoppedNext ==
    \/ Start
    \/ StartResumes
    \/ StartPlays
    \/ Randomize
    \/ SetParams
    \/ TransportTick
    \/ SongEnd

UnstoppedSpec == Init /\ [][UnstoppedNext]_vars

\* C3 as stated, by what it needs in every state: while the engine is
\* Playing and no start() is waiting for the backend, a song-end callback is
\* registered at or ahead of the transport position.  A callback registered
\* behind the position never fires, so where this fails no song end follows
\* unless the host calls randomize().
SongEndStaysAhead ==
    (Playing /\ pending = << >>) =>
        \E i \in 1..Len(timeline) :
            /\ timeline[i].kind = "end"
            /\ timeline[i].at >= position * TicksPerBar

-----------------------------------------------------------------------------
(* 32-bit arithmetic.  A 32-bit word is the pair << high 16 bits, low 16    *)
(* bits >>, so that no intermediate value leaves the checker's integers.    *)


\* 2^16
Half == 256 * 256

\* a ^ b on 16-bit values, bit by bit.
Xor16(a, b) ==
    1 * (((a \div 1) + (b \div 1)) % 2) +
    2 * (((a \div 2) + (b \div 2)) % 2) +
    4 * (((a \div 4) + (b \div 4)) % 2) +
    8 * (((a \div 8) + (b \div 8)) % 2) +
    16 * (((a \div 16) + (b \div 16)) % 2) +
    32 * (((a \div 32) + (b \div 32)) % 2) +
    64 * (((a \div 64) + (b \div 64)) % 2) +
    128 * (((a \div 128) + (b \div 128)) % 2) +
    256 * (((a \div 256) + (b \div 256)) % 2) +
    512 * (((a \div 512) + (b \div 512)) % 2) +
    1024 * (((a \div 1024) + (b \div 1024)) % 2) +
    2048 * (((a \div 2048) + (b \div 2048)) % 2) +
    4096 * (((a \div 4096) + (b \div 4096)) % 2) +
    8192 * (((a \div 8192) + (b \div 8192)) % 2) +
    16384 * (((a \div 16384) + (b \div 16384)) % 2) +
    32768 * (((a \div 32768) + (b \div 32768)) % 2)

\* a | b on 16-bit values, from a + b = (a ^ b) + 2 (a & b).
Or16(a, b) == (a + b + Xor16(a, b)) \div 2

Xor32(a, b) == << Xor16(a[1], b[1]), Xor16(a[2], b[2]) >>

\* a | c for a constant c below 2^16.
OrLow(a, c) == << a[1], Or16(a[2], c) >>

\* (a + b) mod 2^32
Add32(a, b) ==
    LET lo == a[2] + b[2]
    IN  << (a[1] + b[1] + (lo \div Half)) % Half, lo % Half >>

\* a >>> k for 0 < k < 16, with p = 2^k and q = 2^(16-k).
ShiftRight(a, p, q) == << a[1] \div p, ((a[1] % p) * q) + (a[2] \div p) >>

\* Math.imul(a, b): the low 32 bits of the product, by byte columns.
Imul(a, b) ==
    LET a0 == a[2] % 256
        a1 == a[2] \div 256
        a2 == a[1] % 256
        a3 == a[1] \div 256
        b0 == b[2] % 256
        b1 == b[2] \div 256
        b2 == b[1] % 256
        b3 == b[1] \div 256
        c0 == a0 * b0
        c1 == a1 * b0 + a0 * b1
        c2 == a2 * b0 + a1 * b1 + a0 * b2
        c3 == a3 * b0 + a2 * b1 + a1 * b2 + a0 * b3
        low == c0 + (c1 % 256) * 256
        high == (low \div Half) + (c1 \div 256) + c2 + (c3 % 256) * 256
    IN  << high % Half, low % Half >>

\* (u * n) / 2^32 for a 32-bit u and 0 < n < 2^15: the integer part and
\* whether a fraction is left.
Scale(u, n) ==
    LET low == u[2] * n
        high == u[1] * n + (low \div Half)
    IN  [whole |-> high \div Half,
         exact |-> (high % Half = 0) /\ (low % Half = 0)]

\* u < t as unsigned 32-bit words
Less32(u, t) == u[1] < t[1] \/ (u[1] = t[1] /\ u[2] < t[2])

-----------------------------------------------------------------------------
(* Rng: Mulberry32 (piano.ts:113-186).  A generator is its state word; a    *)
(* drawing method returns the generator after the draw and the value.       *)

\* A generator the calls of generateSong would share, seeded by the first of
\* them only: a later call goes on from the state the call before it left.
SharedRng(seed) ==
    IF gCall.pc = "returned" THEN gCall.rng ELSE << seed \div Half, seed % Half >>

\* new Rng(seed): this.state = seed | 0, for 0 <= seed < 2^31.
NewRng(seed) == << seed \div Half, seed % Half >>

\* 0x6d2b79f5
Increment == << 27947, 31221 >>

\* The lines of next() after the increment, on the new state s.
\* t = Math.imul(s ^ (s >>> 15), 1 | s)
Mix1(s) == Imul(Xor32(s, ShiftRight(s, 32768, 2)), OrLow(s, 1))

\* t = (t + Math.imul(t ^ (t >>> 7), 61 | t)) ^ t
Mix2(t) == Xor32(t, Add32(t, Imul(Xor32(t, ShiftRight(t, 128, 512)), OrLow(t, 61))))

\* (t ^ (t >>> 14)) >>> 0
Mix3(t) == Xor32(t, ShiftRight(t, 16384, 4))

\* this.state after a call of next(): (state + 0x6d2b79f5) | 0
Advance(state) == Add32(state, Increment)

\* The value a call of next() returns, times 2^32: a 32-bit word u for the
\* float u / 2^32.
NextWord(state) == Mix3(Mix2(Mix1(Advance(state))))

\* next(): the generator after the call and the word returned.
RngNext(state) == [rng |-> Advance(state), u |-> NextWord(state)]

-----------------------------------------------------------------------------
(* Methods of Rng that draw: each returns the generator after the draws    *)
(* (rng) and the value (v).  A probability p is given in 1/10000.          *)

\* int(min, max) for 0 <= min <= max: (next() * (max - min + 1) + min) | 0
RngInt(rng, min, max) ==
    [rng |-> Advance(rng), v |-> min + Scale(NextWord(rng), max - min + 1).whole]

\* pick(arr): arr[this.int(0, arr.length - 1)]
RngPick(rng, arr) ==
    [rng |-> Advance(rng), v |-> arr[RngInt(rng, 0, Len(arr) - 1).v + 1]]

\* chance(p): next() < p
RngChance(rng, p) ==
    [rng |-> Advance(rng), v |-> Scale(NextWord(rng), 10000).whole < p]

RECURSIVE WeightedIndex(_, _, _, _)
\* The loop of weightedPick: the first i with r <= 0 after subtracting the
\* weights up to i, where r = next() * total; the last index if none.
WeightedIndex(weights, scaled, i, sum) ==
    IF i > Len(weights) THEN Len(weights)
    ELSE IF scaled.whole < sum + weights[i]
            \/ (scaled.whole = sum + weights[i] /\ scaled.exact)
         THEN i
         ELSE WeightedIndex(weights, scaled, i + 1, sum + weights[i])

\* weightedPick(items, weights)
RngWeightedPick(rng, items, weights) ==
    [rng |-> Advance(rng),
     v |-> items[WeightedIndex(weights, Scale(NextWord(rng), SumSeq(weights)), 1, 0)]]

\* The draws that determine a gaussian value: none when u1 = 0, else the
\* words of u1 and u2.
GaussianDraws(u1, u2) ==
    IF u1 = << 0, 0 >> THEN << >> ELSE << u1[1], u1[2], u2[1], u2[2] >>

\* gaussian(mean, stddev): two draws u1, u2; the value is mean when
\* u1 < 1e-10 (u1 = 0), else mean + stddev * sqrt(-2 ln u1) * cos(2 pi u2).
\* v holds the draws that determine the value.
RngGaussian(rng) ==
    [rng |-> Advance(Advance(rng)),
     v |-> GaussianDraws(NextWord(rng), NextWord(Advance(rng)))]

\* fork(): new Rng(this.state); the parent does not advance.
RngFork(rng) == << rng[1] % Half, rng[2] % Half >>

-----------------------------------------------------------------------------
(* Music theory (unnamed/part_004).  Note and key names are character      *)
(* sequences.                                                               *)

CHORD_SHAPES ==
    [maj7 |-> << 0, 4, 7, 11 >>, min7 |-> << 0, 3, 7, 10 >>,
     dom7 |-> << 0, 4, 7, 10 >>, maj |-> << 0, 4, 7 >>, min |-> << 0, 3, 7 >>,
     add9 |-> << 0, 4, 7, 14 >>, min9 |-> << 0, 3, 7, 10, 14 >>,
     maj9 |-> << 0, 4, 7, 11, 14 >>, m7b5 |-> << 0, 3, 6, 10 >>,
     dim7 |-> << 0, 3, 6, 9 >>, sus2 |-> << 0, 2, 7 >>,
     sus4 |-> << 0, 5, 7, 10 >>]

SCALES ==
    [major |-> << 0, 2, 4, 5, 7, 9, 11 >>, minor |-> << 0, 2, 3, 5, 7, 8, 10 >>,
     dorian |-> << 0, 2, 3, 5, 7, 9, 10 >>, pentatonic |-> << 0, 2, 4, 7, 9 >>,
     minPenta |-> << 0, 3, 5, 7, 10 >>]

NOTE_NAMES ==
    << << "C" >>, << "C", "#" >>, << "D" >>, << "D", "#" >>, << "E" >>, << "F" >>,
       << "F", "#" >>, << "G" >>, << "G", "#" >>, << "A" >>, << "A", "#" >>,
       << "B" >> >>

\* `${n}` for an integer n.
IntToStr(n) == IF n < 0 THEN << "-" >> \o NatToStr(0 - n) ELSE NatToStr(n)

\* midiToName(midi)
midiToName(midi) ==
    LET octave == (midi \div 12) - 1
        noteIdx == ((midi % 12) + 12) % 12
    IN  NOTE_NAMES[noteIdx + 1] \o IntToStr(octave)

RECURSIVE DigitsValue(_, _, _)
\* Number.parseInt of the digits s[i..], with acc the value read so far.
DigitsValue(s, i, acc) ==
    IF i > Len(s) THEN acc ELSE DigitsValue(s, i + 1, acc * 10 + DigitValue(s[i]))

\* NOTE_NAMES.indexOf(name), 0-based; -1 when absent.
NoteIndex(name) ==
    IF \E i \in 1..Len(NOTE_NAMES) : NOTE_NAMES[i] = name
    THEN (CHOOSE i \in 1..Len(NOTE_NAMES) : NOTE_NAMES[i] = name) - 1
    ELSE 0 - 1

\* nameToMidi(name): the name must match /^([A-G]#?)(-?\d+)$/, else 60.
nameToMidi(name) ==
    LET letterOk == Len(name) >= 1 /\ name[1] \in { "A", "B", "C", "D", "E", "F", "G" }
        sharp == IF Len(name) >= 2 /\ name[2] = "#" THEN 1 ELSE 0
        minus == IF Len(name) >= 2 + sharp /\ name[2 + sharp] = "-" THEN 1 ELSE 0
        first == 2 + sharp + minus
        digitsOk == first <= Len(name) /\ \A i \in first..Len(name) : IsDigit(name[i])
        noteIdx == NoteIndex(SubSeq(name, 1, 1 + sharp))
        magnitude == DigitsValue(name, first, 0)
        octave == IF minus = 1 THEN 0 - magnitude ELSE magnitude
    IN  IF ~(letterOk /\ digitsOk) THEN 60
        ELSE IF noteIdx = 0 - 1 THEN 60
        ELSE (octave + 1) * 12 + noteIdx

\* CHORD_SHAPES[quality] ?? CHORD_SHAPES.maj7
ChordShape(quality) ==
    IF quality \in DOMAIN CHORD_SHAPES THEN CHORD_SHAPES[quality] ELSE CHORD_SHAPES.maj7

\* buildChord(rootMidi, quality)
buildChord(rootMidi, quality) ==
    LET shape == ChordShape(quality)
    IN  [i \in 1..Len(shape) |-> rootMidi + shape[i]]

\* [...].sort((a, b) => a - b) on numbers
SortNumbers(s) ==
    LET n == Len(s)
        before(i, j) == s[i] < s[j] \/ (s[i] = s[j] /\ i < j)
        place == ToSeq([j \in 1..n |-> 1 + Cardinality({ i \in 1..n : before(i, j) })])
    IN  ToSeq([r \in 1..n |-> s[CHOOSE j \in 1..n : place[j] = r]])

\* spreadChord(rootMidi, quality)
spreadChord(rootMidi, quality) ==
    LET shape == ChordShape(quality)
        notes == ToSeq([i \in 1..Len(shape) |-> rootMidi + shape[i]])
        root == notes[1]
        fifth == IF \E i \in 1..Len(shape) : shape[i] = 7
                 THEN notes[CHOOSE i \in 1..Len(shape) :
                                /\ shape[i] = 7
                                /\ \A j \in 1..(i - 1) : shape[j] # 7]
                 ELSE root + 7
        isUpper(n) == n # root /\ n # fifth
        upper == SelectSeq(notes, isUpper)
        left == << root - 12, fifth - 12 >>
        right == IF Len(upper) > 0 THEN upper ELSE << root + 4 >>
        audible(n) == n >= 28
    IN  SelectSeq(SortNumbers(left \o right), audible)

\* buildScale(rootName, scaleType)
buildScale(rootName, scaleType) ==
    LET scale == IF scaleType \in DOMAIN SCALES THEN SCALES[scaleType] ELSE SCALES.major
        rootPitch == nameToMidi(rootName \o << "4" >>) % 12
    IN  ToSeq([i \in 1..Len(scale) |-> (rootPitch + scale[i]) % 12])

CHORD_SCALES ==
    [major |-> SCALES.major, minor |-> SCALES.minor, dorian |-> SCALES.dorian,
     pentatonic |-> SCALES.major, minPenta |-> SCALES.minor]

\* diatonicChord(key, scaleType, degree).root
diatonicChordRoot(key, scaleType, degree) ==
    LET scale == IF scaleType \in DOMAIN CHORD_SCALES THEN CHORD_SCALES[scaleType]
                 ELSE CHORD_SCALES.major
        rootMidi == nameToMidi(key \o << "4" >>)
        degreeIdx == (((degree - 1) % 7) + 7) % 7
        degreeSemitone == IF degreeIdx < Len(scale) THEN scale[degreeIdx + 1] ELSE 0
    IN  rootMidi + degreeSemitone

\* resolveChordFromTemplate(key, scaleType, [degree, quality])
resolveChordFromTemplate(key, scaleType, template) ==
    [root |-> diatonicChordRoot(key, scaleType, template[1]), quality |-> template[2]]

PRESETS ==
    <<
    [ name |-> "Jazzhop",
      tempoRange |-> << 70, 80 >>,
      swing |-> 30,
      padVolume |-> -4,
      drumPatterns |-> << [kick |-> << 100, 0, 0, 0, 100, 0, 0, 0, 100, 0, 0, 0, 100, 0, 0, 0 >>,
               snare |-> << 0, 0, 0, 0, 100, 0, 0, 0, 0, 0, 0, 0, 100, 0, 0, 0 >>,
               hihat |-> << 30, 20, 30, 20, 30, 20, 30, 20, 30, 20, 30, 20, 30, 20, 30, 20 >>],
            [kick |-> << 100, 0, 0, 0, 100, 0, 0, 0, 100, 0, 0, 0, 100, 0, 50, 0 >>,
               snare |-> << 0, 0, 50, 0, 100, 0, 0, 0, 0, 0, 50, 0, 100, 0, 0, 0 >>,
               hihat |-> << 25, 15, 25, 15, 25, 15, 25, 15, 25, 15, 25, 15, 25, 15, 25, 15 >>] >>,
      drumFills |-> << [kick |-> << 100, 0, 0, 0, 100, 0, 0, 0, 100, 0, 100, 0, 100, 0, 0, 0 >>,
               snare |-> << 0, 0, 0, 0, 0, 0, 0, 0, 50, 50, 50, 50, 100, 0, 0, 0 >>,
               hihat |-> << 40, 30, 40, 30, 40, 30, 50, 40, 50, 40, 50, 40, 50, 40, 50, 40 >>] >>,
      kickVolume |-> -2,
      snareVolume |-> -5,
      hihatVolume |-> -12,
      keys |-> << << "C" >>, << "F" >>, << "G" >>, << "A", "m" >>, << "B", "b" >>, << "E", "b" >> >>,
      progressions |-> << << << 1, "min7" >>, << 4, "min7" >>, << 1, "min7" >>, << 5, "min7" >> >>,
            << << 1, "min7" >>, << 4, "min7" >>, << 1, "min7" >>, << 4, "min7" >> >>,
            << << 4, "min7" >>, << 1, "min7" >>, << 5, "min7" >>, << 1, "min7" >> >> >>,
      scaleType |-> "dorian",
      melodyRestProbability |-> 2500,
      motifLength |-> << 4, 6 >>,
      useSoftVoicings |-> TRUE,
      chordDurationBars |-> << >>,
      chordVoicing |-> << << "block", "broken", "arpeggio" >> >>,
      susChordProbability |-> << 1500 >>,
      extraInstruments |-> << << [id |-> "piano", probability |-> 5000], [id |-> "trumpet", probability |-> 3000] >> >> ],
    [ name |-> "Chillhop",
      tempoRange |-> << 80, 90 >>,
      swing |-> 15,
      padVolume |-> -6,
      drumPatterns |-> << [kick |-> << 100, 0, 0, 0, 100, 0, 0, 0, 100, 0, 0, 0, 100, 0, 0, 0 >>,
               snare |-> << 0, 0, 0, 0, 100, 0, 0, 0, 0, 0, 0, 0, 100, 0, 0, 0 >>,
               hihat |-> << 35, 20, 35, 20, 35, 20, 35, 20, 35, 20, 35, 20, 35, 20, 35, 20 >>],
            [kick |-> << 100, 0, 0, 0, 100, 0, 0, 0, 100, 0, 0, 0, 100, 0, 60, 0 >>,
               snare |-> << 0, 0, 40, 0, 100, 0, 0, 0, 0, 0, 40, 0, 100, 0, 0, 0 >>,
               hihat |-> << 30, 25, 30, 25, 30, 25, 30, 25, 30, 25, 30, 25, 30, 25, 30, 25 >>] >>,
      drumFills |-> << [kick |-> << 100, 0, 0, 0, 100, 0, 0, 0, 100, 0, 100, 0, 100, 0, 0, 0 >>,
               snare |-> << 0, 0, 0, 0, 0, 0, 0, 0, 50, 50, 50, 100, 100, 0, 0, 0 >>,
               hihat |-> << 30, 30, 35, 35, 40, 40, 45, 45, 50, 50, 50, 50, 50, 50, 50, 50 >>] >>,
      kickVolume |-> -2,
      snareVolume |-> -6,
      hihatVolume |-> -11,
      keys |-> << << "C" >>, << "G" >>, << "F" >>, << "A", "m" >>, << "D", "m" >>, << "E", "m" >> >>,
      progressions |-> << << << 1, "maj" >>, << 5, "maj" >>, << 6, "min" >>, << 4, "maj" >> >>,
            << << 1, "maj" >>, << 6, "min" >>, << 4, "maj" >>, << 5, "maj" >> >>,
            << << 4, "maj" >>, << 1, "maj" >>, << 6, "min" >>, << 5, "maj" >> >>,
            << << 6, "min" >>, << 4, "maj" >>, << 1, "maj" >>, << 5, "maj" >> >> >>,
      scaleType |-> "major",
      melodyRestProbability |-> 2000,
      motifLength |-> << 5, 8 >>,
      useSoftVoicings |-> TRUE,
      chordDurationBars |-> << >>,
      chordVoicing |-> << << "block", "spread", "arpeggio" >> >>,
      susChordProbability |-> << 2000 >>,
      extraInstruments |-> << << [id |-> "piano", probability |-> 6000], [id |-> "violin", probability |-> 3500], [id |-> "guitar", probability |-> 2500] >> >> ],
    [ name |-> "Ambient",
      tempoRange |-> << 65, 75 >>,
      swing |-> 5,
      padVolume |-> -4,
      drumPatterns |-> << [kick |-> << 100, 0, 0, 0, 100, 0, 0, 0, 100, 0, 0, 0, 100, 0, 0, 0 >>,
               snare |-> << 0, 0, 0, 0, 40, 0, 0, 0, 0, 0, 0, 0, 40, 0, 0, 0 >>,
               hihat |-> << 20, 15, 20, 15, 20, 15, 20, 15, 20, 15, 20, 15, 20, 15, 20, 15 >>],
            [kick |-> << 100, 0, 0, 0, 0, 0, 0, 0, 100, 0, 0, 0, 0, 0, 0, 0 >>,
               snare |-> << 0, 0, 0, 0, 0, 0, 0, 0, 0, 0, 0, 0, 30, 0, 0, 0 >>,
               hihat |-> << 15, 10, 15, 10, 15, 10, 15, 10, 15, 10, 15, 10, 15, 10, 15, 10 >>] >>,
      drumFills |-> << [kick |-> << 100, 0, 0, 0, 100, 0, 0, 0, 100, 0, 0, 0, 100, 0, 0, 0 >>,
               snare |-> << 0, 0, 0, 0, 0, 0, 0, 0, 0, 0, 30, 30, 50, 0, 0, 0 >>,
               hihat |-> << 20, 20, 25, 25, 30, 30, 30, 30, 30, 30, 30, 30, 30, 30, 30, 30 >>] >>,
      kickVolume |-> -4,
      snareVolume |-> -10,
      hihatVolume |-> -16,
      keys |-> << << "A", "m" >>, << "D", "m" >>, << "E", "m" >>, << "C" >>, << "F" >> >>,
      progressions |-> << << << 1, "min" >>, << 4, "min" >>, << 1, "min" >>, << 4, "min" >> >>,
            << << 1, "min" >>, << 5, "min" >>, << 1, "min" >>, << 5, "min" >> >>,
            << << 4, "min" >>, << 1, "min" >>, << 5, "min" >>, << 1, "min" >> >> >>,
      scaleType |-> "pentatonic",
      melodyRestProbability |-> 6000,
      motifLength |-> << 3, 4 >>,
      useSoftVoicings |-> TRUE,
      chordDurationBars |-> << 2 >>,
      chordVoicing |-> << << "block", "spread" >> >>,
      susChordProbability |-> << >>,
      extraInstruments |-> << << [id |-> "violin", probability |-> 3000] >> >> ],
    [ name |-> "Boom Bap",
      tempoRange |-> << 85, 95 >>,
      swing |-> 10,
      padVolume |-> -6,
      drumPatterns |-> << [kick |-> << 100, 0, 0, 0, 100, 0, 0, 0, 100, 0, 0, 0, 100, 0, 0, 0 >>,
               snare |-> << 0, 0, 0, 0, 100, 0, 0, 0, 0, 0, 0, 0, 100, 0, 0, 0 >>,
               hihat |-> << 50, 20, 50, 20, 50, 20, 50, 20, 50, 20, 50, 20, 50, 20, 50, 20 >>],
            [kick |-> << 100, 0, 0, 30, 100, 0, 0, 0, 100, 0, 0, 0, 100, 0, 40, 0 >>,
               snare |-> << 0, 0, 60, 0, 100, 0, 60, 0, 0, 0, 60, 0, 100, 0, 0, 0 >>,
               hihat |-> << 55, 20, 55, 25, 55, 20, 55, 25, 55, 20, 55, 25, 55, 20, 55, 25 >>] >>,
      drumFills |-> << [kick |-> << 100, 0, 0, 0, 100, 0, 100, 0, 100, 0, 0, 0, 100, 0, 100, 0 >>,
               snare |-> << 0, 0, 0, 0, 0, 0, 0, 0, 60, 60, 60, 60, 100, 0, 0, 0 >>,
               hihat |-> << 60, 50, 60, 50, 65, 55, 65, 55, 70, 60, 70, 60, 70, 60, 70, 60 >>] >>,
      kickVolume |-> 0,
      snareVolume |-> -4,
      hihatVolume |-> -10,
      keys |-> << << "A", "m" >>, << "D", "m" >>, << "E", "m" >>, << "G", "m" >>, << "C", "m" >>, << "F", "m" >> >>,
      progressions |-> << << << 1, "min" >>, << 5, "min" >>, << 1, "min" >>, << 5, "min" >> >>,
            << << 1, "min" >>, << 4, "min" >>, << 1, "min" >>, << 5, "min" >> >>,
            << << 1, "min" >>, << 4, "min" >>, << 5, "min" >>, << 1, "min" >> >> >>,
      scaleType |-> "minPenta",
      melodyRestProbability |-> 4000,
      motifLength |-> << 3, 5 >>,
      useSoftVoicings |-> TRUE,
      chordDurationBars |-> << >>,
      chordVoicing |-> << >>,
      susChordProbability |-> << >>,
      extraInstruments |-> << >> ],
    [ name |-> "Sleepy",
      tempoRange |-> << 60, 70 >>,
      swing |-> 8,
      padVolume |-> -6,
      drumPatterns |-> << [kick |-> << 100, 0, 0, 0, 100, 0, 0, 0, 100, 0, 0, 0, 100, 0, 0, 0 >>,
               snare |-> << 0, 0, 0, 0, 30, 0, 0, 0, 0, 0, 0, 0, 30, 0, 0, 0 >>,
               hihat |-> << 15, 10, 15, 10, 15, 10, 15, 10, 15, 10, 15, 10, 15, 10, 15, 10 >>],
            [kick |-> << 100, 0, 0, 0, 0, 0, 0, 0, 100, 0, 0, 0, 0, 0, 0, 0 >>,
               snare |-> << 0, 0, 0, 0, 0, 0, 0, 0, 0, 0, 0, 0, 25, 0, 0, 0 >>,
               hihat |-> << 12, 8, 12, 8, 12, 8, 12, 8, 12, 8, 12, 8, 12, 8, 12, 8 >>] >>,
      drumFills |-> << [kick |-> << 100, 0, 0, 0, 100, 0, 0, 0, 100, 0, 0, 0, 100, 0, 0, 0 >>,
               snare |-> << 0, 0, 0, 0, 0, 0, 0, 0, 0, 0, 20, 20, 35, 0, 0, 0 >>,
               hihat |-> << 15, 15, 15, 15, 18, 18, 18, 18, 18, 18, 18, 18, 18, 18, 18, 18 >>] >>,
      kickVolume |-> -3,
      snareVolume |-> -8,
      hihatVolume |-> -14,
      keys |-> << << "C" >>, << "F" >>, << "G" >>, << "A", "m" >>, << "D", "m" >> >>,
      progressions |-> << << << 1, "maj" >>, << 4, "maj" >>, << 1, "maj" >>, << 5, "maj" >> >>,
            << << 1, "maj" >>, << 5, "maj" >>, << 6, "min" >>, << 4, "maj" >> >>,
            << << 6, "min" >>, << 4, "maj" >>, << 1, "maj" >>, << 5, "maj" >> >> >>,
      scaleType |-> "pentatonic",
      melodyRestProbability |-> 6500,
      motifLength |-> << 3, 4 >>,
      useSoftVoicings |-> TRUE,
      chordDurationBars |-> << >>,
      chordVoicing |-> << >>,
      susChordProbability |-> << >>,
      extraInstruments |-> << >> ]
    >>

-----------------------------------------------------------------------------
(* The song generator (piano.ts:829-1612).  Velocities are floating-point   *)
(* values: a velocity is held as the expression that computes it -- its     *)
(* formula (fn), the integer constants in it (c) and the random words of    *)
(* the gaussian draw in it (g) -- equal expressions giving equal values.    *)

Velocity(fn, c, g) == [fn |-> fn, c |-> c, g |-> g]

\* preset.x ?? d, an optional field being << >> or << x >>.
OrElse(opt, d) == IF opt = << >> THEN d ELSE opt[1]

Reverse(s) == [i \in 1..Len(s) |-> s[Len(s) + 1 - i]]

\* TLC evaluates an operator's arguments on demand; a loop asks for its
\* accumulator on entry so that each iteration is evaluated in turn.
Ready(acc) == DOMAIN acc # {}

SECTION_STRUCTURES ==
    << << "intro", "verse", "chorus", "verse", "bridge", "chorus", "outro" >>,
       << "intro", "verse", "chorus", "verse", "chorus", "outro" >>,
       << "intro", "verse", "verse", "bridge", "chorus", "outro" >>,
       << "verse", "chorus", "verse", "bridge", "chorus" >> >>

SECTION_BARS ==
    [intro |-> << 2, 4 >>, verse |-> << 4, 8 >>, chorus |-> << 4, 8 >>,
     bridge |-> << 4, 8 >>, outro |-> << 2, 4 >>]

pickPreset(rng) == RngPick(rng, PRESETS)

pickKey(rng, preset) == RngPick(rng, preset.keys)

pickTempo(rng, preset) == RngInt(rng, preset.tempoRange[1], preset.tempoRange[2])

\* A loop body that takes the bar count from 0: rng.int(min - 2, max - 2).
pickBarFromZero(acc, b) == [rng |-> b.rng, bars |-> Append(acc.bars, b.v - 2)]

\* The body of the loop of pickStructure, on the bar count b it draws:
\* acc = [rng, bars].
pickBar(acc, b) == [rng |-> b.rng, bars |-> Append(acc.bars, b.v)]

RECURSIVE pickBars(_, _, _)
\* The loop of pickStructure.
pickBars(names, i, acc) ==
    IF i > Len(names) \/ ~Ready(acc) THEN acc
    ELSE pickBars(names, i + 1,
                  pickBar(acc, RngInt(acc.rng, SECTION_BARS[names[i]][1],
                                      SECTION_BARS[names[i]][2])))

\* pickStructure after its pick of the section names.
pickStructureOf(names) ==
    [names |-> names.v] @@ pickBars(names.v, 1, [rng |-> names.rng, bars |-> << >>])

pickStructure(rng) == pickStructureOf(RngPick(rng, SECTION_STRUCTURES))

pickProgression(rng, preset) == RngPick(rng, preset.progressions)

\* The triad used in place of a seventh chord under useSoftVoicings.
SoftQuality(preset, quality) ==
    IF preset.useSoftVoicings /\ quality \in { "maj7", "min7" }
    THEN (IF quality = "maj7" THEN "maj" ELSE "min")
    ELSE quality

\* maybeSusQuality after its first draw c.
maybeSusQualityIf(q, c) ==
    IF ~c.v THEN [rng |-> c.rng, v |-> q]
    ELSE IF q = "maj"
         THEN [rng |-> RngChance(c.rng, 5000).rng,
               v |-> IF RngChance(c.rng, 5000).v THEN "sus2" ELSE "sus4"]
    ELSE IF q = "min" THEN [rng |-> c.rng, v |-> "sus4"]
    ELSE [rng |-> c.rng, v |-> q]

maybeSusQuality(q, rng, prob) ==
    IF prob <= 0 THEN [rng |-> rng, v |-> q]
    ELSE maybeSusQualityIf(q, RngChance(rng, prob))

ChordBars(preset) == OrElse(preset.chordDurationBars, 1)

\* progression[Math.floor(bar / chordBars) % len]
TemplateAt(progression, preset, bar) ==
    progression[((bar \div ChordBars(preset)) % Len(progression)) + 1]

\* The body of the voicing loop of resolveChords, on the jitter it draws:
\* acc = [rng, voicing].
VoicingNote(chordNotes, padVol, i, acc, jitter) ==
    [rng |-> jitter.rng,
     voicing |-> Append(acc.voicing,
         [note |-> midiToName(chordNotes[i]),
          velocity |-> Velocity("chord", << padVol, i - 1 >>, jitter.v)])]

RECURSIVE VoicingFrom(_, _, _, _)
\* The voicing loop of resolveChords.
VoicingFrom(chordNotes, padVol, i, acc) ==
    IF i > Len(chordNotes) \/ ~Ready(acc) THEN acc
    ELSE VoicingFrom(chordNotes, padVol, i + 1,
                     VoicingNote(chordNotes, padVol, i, acc, RngGaussian(acc.rng)))

\* buildChord(root, q).map(n => n - 12).filter(n => n >= 28)
LoweredChord(built) ==
    LET audible(n) == n >= 28
    IN  SelectSeq([i \in 1..Len(built) |-> built[i] - 12], audible)

\* The notes of one chord of resolveChords, from its root, quality and mode.
ChordNotes(root, q, mode) ==
    IF mode = "spread" THEN spreadChord(root, q) ELSE LoweredChord(buildChord(root, q))

\* The events of a broken or arpeggiated chord, in the order played.
BrokenEvents(sectionStartBar, bar, ordering) ==
    ToSeq([i \in 1..Len(ordering) |->
        NoteEvent(FormatTime(sectionStartBar + bar, ((i - 1) * 2) \div 4, ((i - 1) * 2) % 4),
                  ordering[i].note, "8n", ordering[i].velocity, "pad")])

\* The events of a block or spread chord.
BlockEvents(preset, sectionStartBar, bar, voicing) ==
    ToSeq([i \in 1..Len(voicing) |->
        NoteEvent(FormatTime(sectionStartBar + bar, 0, 0), voicing[i].note,
                  IF ChordBars(preset) = 2 THEN "2m" ELSE "1n",
                  voicing[i].velocity, "pad")])

\* The order of a broken chord, on the draw forward.
BrokenOrder(sectionStartBar, bar, voicing, forward) ==
    [rng |-> forward.rng,
     events |-> BrokenEvents(sectionStartBar, bar,
                             IF forward.v THEN voicing ELSE Reverse(voicing))]

\* The events of one chord of resolveChords, from its voicing: [rng, events].
ChordEvents(preset, sectionStartBar, bar, mode, voiced) ==
    IF mode \in { "broken", "arpeggio" }
    THEN BrokenOrder(sectionStartBar, bar, voiced.voicing, RngChance(voiced.rng, 5000))
    ELSE [rng |-> voiced.rng,
          events |-> BlockEvents(preset, sectionStartBar, bar, voiced.voicing)]

\* One chord of resolveChords after its quality sus and its voicing mode are
\* drawn.
ChordVoiced(key, preset, sectionStartBar, bar, degree, sus, mode) ==
    ChordEvents(preset, sectionStartBar, bar, mode.v,
        VoicingFrom(ChordNotes(resolveChordFromTemplate(key, preset.scaleType,
                                   << degree, sus.v >>).root,
                               sus.v, mode.v),
                    preset.padVolume, 1, [rng |-> mode.rng, voicing |-> << >>]))

\* One chord of resolveChords after its quality sus is drawn.
ChordSus(key, preset, sectionStartBar, bar, degree, sus) ==
    ChordVoiced(key, preset, sectionStartBar, bar, degree, sus,
                RngPick(sus.rng, OrElse(preset.chordVoicing, << "block" >>)))

\* One iteration of the bar loop of resolveChords, on the chord template.
ChordBar(key, preset, sectionStartBar, bar, template, rng) ==
    ChordSus(key, preset, sectionStartBar, bar, template[1],
             maybeSusQuality(SoftQuality(preset, template[2]), rng,
                             OrElse(preset.susChordProbability, 0)))

\* The bar loop of resolveChords appends the events b of the bar:
\* acc = [rng, events].
ChordBarInto(acc, b) == [rng |-> b.rng, events |-> acc.events \o b.events]

RECURSIVE resolveChordsFrom(_, _, _, _, _, _, _)
resolveChordsFrom(key, progression, preset, sectionStartBar, sectionBars, bar, acc) ==
    IF bar >= sectionBars \/ ~Ready(acc) THEN acc
    ELSE resolveChordsFrom(key, progression, preset, sectionStartBar, sectionBars,
                           bar + ChordBars(preset),
                           ChordBarInto(acc,
                               ChordBar(key, preset, sectionStartBar, bar,
                                        TemplateAt(progression, preset, bar), acc.rng)))

\* resolveChords draws from the generator it is given (the song's own) and
\* leaves it advanced.
resolveChords(key, progression, preset, sectionStartBar, sectionBars, rng) ==
    resolveChordsFrom(key, progression, preset, sectionStartBar, sectionBars, 0,
                      [rng |-> rng, events |-> << >>])

\* The body of the degree loop of generateMotif, on the move it draws:
\* acc = [rng, degrees, durations, velocities].
MotifDegree(scaleLen, acc, move) ==
    [acc EXCEPT !.rng = move.rng,
                !.degrees = Append(@, Max(0, Min(scaleLen - 1, @[Len(@)] + move.v)))]

RECURSIVE MotifDegrees(_, _, _, _)
MotifDegrees(len, scaleLen, i, acc) ==
    IF i >= len \/ ~Ready(acc) THEN acc
    ELSE MotifDegrees(len, scaleLen, i + 1,
                      MotifDegree(scaleLen, acc,
                                  RngWeightedPick(acc.rng, << 0 - 1, 0 - 2, 0 - 3, 1, 2, 3 >>,
                                                  << 35, 10, 5, 35, 10, 5 >>)))

\* The body of the duration loop of generateMotif, on the duration it draws.
MotifDuration(acc, d) ==
    [acc EXCEPT !.rng = d.rng, !.durations = Append(@, d.v)]

RECURSIVE MotifDurations(_, _, _)
MotifDurations(len, i, acc) ==
    IF i >= len \/ ~Ready(acc) THEN acc
    ELSE MotifDurations(len, i + 1,
                        MotifDuration(acc, RngWeightedPick(acc.rng, << "8n", "4n", "2n" >>,
                                                           << 70, 25, 5 >>)))

\* The body of the velocity loop of generateMotif, on the jitter it draws.
MotifVelocity(len, i, acc, g) ==
    [acc EXCEPT !.rng = g.rng,
                !.velocities = Append(@, Velocity("motif", << i, len >>, g.v))]

RECURSIVE MotifVelocities(_, _, _)
MotifVelocities(len, i, acc) ==
    IF i >= len \/ ~Ready(acc) THEN acc
    ELSE MotifVelocities(len, i + 1, MotifVelocity(len, i, acc, RngGaussian(acc.rng)))

\* The motif generateMotif returns, from the accumulator of its loops.
MotifOf(acc) ==
    [degrees |-> acc.degrees, durations |-> acc.durations, velocities |-> acc.velocities]

\* generateMotif after its draws of the length and of the first degree.
MotifFrom(len, scaleLen, startDeg) ==
    MotifOf(MotifVelocities(len, 0,
                MotifDurations(len, 0,
                    MotifDegrees(len, scaleLen, 1,
                                 [rng |-> startDeg.rng, degrees |-> << startDeg.v >>,
                                  durations |-> << >>, velocities |-> << >>]))))

\* generateMotif after its draw of the length.
MotifOfLength(len, scaleLen) ==
    MotifFrom(len.v, scaleLen, RngPick(len.rng, << 0, 2, 4 >>))

generateMotif(rng, scale, lengthRange) ==
    MotifOfLength(RngInt(rng, lengthRange[1], lengthRange[2]), Len(scale))

\* varyMotif(rng, motif, amount), amount in 1/100 and positive.  Each of its
\* four edits draws a chance, then an index i; m = [rng, motif].
\* degrees[i] = max(0, min(scaleLen - 1, degrees[i] + rng.pick([-1, 1]))),
\* scaleLen = 7
VaryStep(motif, i, move) ==
    [rng |-> move.rng,
     motif |-> [motif EXCEPT !.degrees[i + 1] = Max(0, Min(7 - 1, @ + move.v))]]

\* [degrees[i], degrees[i + 1]] = [degrees[i + 1], degrees[i]]
VarySwap(motif, i) ==
    [rng |-> i.rng,
     motif |-> [motif EXCEPT !.degrees[i.v + 1] = motif.degrees[i.v + 2],
                             !.degrees[i.v + 2] = motif.degrees[i.v + 1]]]

\* durations[i] = rng.pick(["8n", "4n", "2n"])
VaryDuration(motif, i, d) ==
    [rng |-> d.rng, motif |-> [motif EXCEPT !.durations[i + 1] = d.v]]

\* degrees[i] = -1
VaryRest(motif, i) ==
    [rng |-> i.rng, motif |-> [motif EXCEPT !.degrees[i.v + 1] = 0 - 1]]

\* The probability of an edit, per 1/100 of amount, in 1/10000.
VaryWeight(edit) ==
    CASE edit = "step" -> 30 [] edit = "swap" -> 20
      [] edit = "duration" -> 20 [] edit = "rest" -> 15

\* The condition of an edit besides its chance.
VaryGuard(edit, motif) ==
    CASE edit = "step" -> Len(motif.degrees) > 0
      [] edit = "swap" -> Len(motif.degrees) >= 2
      [] edit = "duration" -> TRUE
      [] edit = "rest" -> Len(motif.degrees) > 0

\* An edit after its draw of the index i.
VaryAt(edit, motif, i) ==
    CASE edit = "step" -> VaryStep(motif, i.v, RngPick(i.rng, << 0 - 1, 1 >>))
      [] edit = "swap" -> VarySwap(motif, i)
      [] edit = "duration" ->
             VaryDuration(motif, i.v, RngPick(i.rng, << "8n", "4n", "2n" >>))
      [] edit = "rest" -> VaryRest(motif, i)

\* An edit after its draw of the chance c.
VaryIf(edit, motif, c) ==
    IF c.v /\ VaryGuard(edit, motif)
    THEN VaryAt(edit, motif,
                RngInt(c.rng, 0,
                       CASE edit = "swap" -> Len(motif.degrees) - 2
                         [] edit = "duration" -> Len(motif.durations) - 1
                         [] OTHER -> Len(motif.degrees) - 1))
    ELSE [rng |-> c.rng, motif |-> motif]

\* One edit of varyMotif.
VaryEdit(edit, m, amount) ==
    VaryIf(edit, m.motif, RngChance(m.rng, amount * VaryWeight(edit)))

varyMotif(rng, motif, amount) ==
    VaryEdit("rest",
        VaryEdit("duration",
            VaryEdit("swap",
                VaryEdit("step", [rng |-> rng, motif |-> motif], amount),
                amount),
            amount),
        amount)

invertMotif(motif) ==
    IF Len(motif.degrees) = 0 THEN motif
    ELSE [motif EXCEPT !.degrees =
             ToSeq([i \in 1..Len(motif.degrees) |->
                 IF motif.degrees[i] = 0 - 1 THEN 0 - 1
                 ELSE motif.degrees[1] - (motif.degrees[i] - motif.degrees[1])])]

\* fragmentMotif(_rng, motif, keepRatio), keepRatio in 1/10.
fragmentMotif(motif, keepRatio) ==
    LET keep == Max(1, (Len(motif.degrees) * keepRatio) \div 10)
    IN  [degrees |-> SubSeq(motif.degrees, 1, Min(keep, Len(motif.degrees))),
         durations |-> SubSeq(motif.durations, 1, Min(keep, Len(motif.durations))),
         velocities |-> SubSeq(motif.velocities, 1, Min(keep, Len(motif.velocities)))]

\* chordAtBar(key, progression, preset, bar)
chordAtBar(key, progression, preset, bar) ==
    resolveChordFromTemplate(key, preset.scaleType,
                             progression[(bar % Len(progression)) + 1]).root

durTo16(d) == IF d = "8n" THEN 2 ELSE IF d = "4n" THEN 4 ELSE IF d = "2n" THEN 8 ELSE 2

\* durations.map(d => d === "8n" ? "4n" : d === "4n" ? "2n" : d)
LongerDurations(m) ==
    LET longer(d) == IF d = "8n" THEN "4n" ELSE IF d = "4n" THEN "2n" ELSE d
    IN  [m EXCEPT !.durations = ToSeq([i \in 1..Len(m.durations) |-> longer(m.durations[i])])]

\* The motif of a chorus slot, on the draw inv.
ChorusMotif(motif, inv) ==
    [skip |-> FALSE] @@ varyMotif(inv.rng, IF inv.v THEN invertMotif(motif) ELSE motif, 15)

\* The motif of a bridge slot, on the draw rest.
BridgeMotif(motif, rest) ==
    [rng |-> rest.rng, motif |-> fragmentMotif(motif, 4), skip |-> rest.v]

\* The motif a slot of the melody plays: [rng, motif, skip].
SlotMotif(rng, motif, name, restProb) ==
    IF name = "verse" THEN [skip |-> FALSE] @@ varyMotif(rng, motif, 20)
    ELSE IF name = "chorus" THEN ChorusMotif(motif, RngChance(rng, 5000))
    ELSE IF name = "bridge" THEN BridgeMotif(motif, RngChance(rng, (restProb * 3) \div 2))
    ELSE IF name = "outro"
    THEN [rng |-> rng, motif |-> LongerDurations(fragmentMotif(motif, 3)), skip |-> FALSE]
    ELSE [rng |-> rng, motif |-> motif, skip |-> FALSE]

\* The note a degree of the motif sounds: the midi pitch.
DegreeMidi(scale, deg) ==
    LET scaleLen == Len(scale)
        pitchClass == scale[(((deg % scaleLen) + scaleLen) % scaleLen) + 1]
        octaveOffset == IF deg >= scaleLen THEN 1
                        ELSE IF deg < 0 THEN 0 - 1 ELSE 0
    IN  60 + pitchClass + octaveOffset * 12

\* 1 when the note is a chord tone (root, third or fifth) of the bar's chord.
ChordToneBoost(midi, chordRoot) ==
    LET chordPitch == chordRoot % 12
        notePitch == midi % 12
    IN  IF \/ notePitch = chordPitch
           \/ notePitch = (chordPitch + 4) % 12
           \/ notePitch = (chordPitch + 7) % 12
        THEN 1 ELSE 0

\* A note of the melody, on the jitter g it draws: acc = [rng, events,
\* sixteenth, motifs], motifs the motifs m laid out so far, in slot order.
MelodyEvent(m, key, progression, preset, i, midi, bar, acc, g) ==
    [rng |-> g.rng,
     motifs |-> acc.motifs,
     events |-> Append(acc.events,
         NoteEvent(FormatTime(bar, (acc.sixteenth % 16) \div 4, (acc.sixteenth % 16) % 4),
                   midiToName(midi), m.durations[i],
                   Velocity("melody",
                            m.velocities[i].c \o
                                << ChordToneBoost(midi,
                                       chordAtBar(key, progression, preset, bar)) >>,
                            m.velocities[i].g \o << 0 - 1 >> \o g.v),
                   "melody")),
     sixteenth |-> acc.sixteenth + durTo16(m.durations[i])]

\* The body of the note loop of a slot after the draw rest.
MelodyRest(m, scale, key, progression, preset, slotStartBar, i, acc, rest) ==
    IF rest.v THEN [acc EXCEPT !.rng = rest.rng]
    ELSE MelodyEvent(m, key, progression, preset, i, DegreeMidi(scale, m.degrees[i]),
                     slotStartBar + (acc.sixteenth \div 16), acc, RngGaussian(rest.rng))

\* One iteration of the note loop of a slot.
MelodyNote(m, scale, key, progression, preset, restProb, slotStartBar, i, acc) ==
    IF m.degrees[i] = 0 - 1 THEN acc
    ELSE MelodyRest(m, scale, key, progression, preset, slotStartBar, i, acc,
                    RngChance(acc.rng, restProb))

RECURSIVE MelodyNotes(_, _, _, _, _, _, _, _, _)
\* The note loop of one slot.
MelodyNotes(m, scale, key, progression, preset, restProb, slotStartBar, i, acc) ==
    IF i > Len(m.degrees) \/ ~Ready(acc) THEN acc
    ELSE MelodyNotes(m, scale, key, progression, preset, restProb, slotStartBar, i + 1,
                     MelodyNote(m, scale, key, progression, preset, restProb,
                                slotStartBar, i, acc))

\* A slot of generateMelody after its motif m is chosen.
MelodySlotOf(scale, key, progression, preset, slotStartBar, acc, m) ==
    IF m.skip THEN [acc EXCEPT !.rng = m.rng]
    ELSE MelodyNotes(m.motif, scale, key, progression, preset,
                     preset.melodyRestProbability, slotStartBar, 1,
                     [acc EXCEPT !.rng = m.rng, !.sixteenth = 0,
                                 !.motifs = Append(@, m.motif)])

\* One iteration of the slot loop of generateMelody.
MelodySlot(motif, scale, section, key, progression, preset, sectionStartBar, slot, acc) ==
    MelodySlotOf(scale, key, progression, preset, sectionStartBar + slot * 2, acc,
                 SlotMotif(acc.rng, motif, section.name, preset.melodyRestProbability))

RECURSIVE MelodySlots(_, _, _, _, _, _, _, _, _)
\* The slot loop of generateMelody.
MelodySlots(motif, scale, section, key, progression, preset, sectionStartBar, slot, acc) ==
    IF slot >= section.bars \div 2 \/ ~Ready(acc) THEN acc
    ELSE MelodySlots(motif, scale, section, key, progression, preset, sectionStartBar,
                     slot + 1,
                     MelodySlot(motif, scale, section, key, progression, preset,
                                sectionStartBar, slot, acc))

\* generateMelody before its slot loop.
MelodyStart(rng) == [rng |-> rng, events |-> << >>, sixteenth |-> 0, motifs |-> << >>]

generateMelody(rng, motif, scale, section, key, progression, preset, sectionStartBar) ==
    IF section.name = "intro" THEN << >>
    ELSE MelodySlots(motif, scale, section, key, progression, preset, sectionStartBar,
                     0, MelodyStart(rng)).events

\* The motifs m that a call of generateMelody lays out, one per slot played.
melodyMotifs(rng, motif, scale, section, key, progression, preset, sectionStartBar) ==
    IF section.name = "intro" THEN << >>
    ELSE MelodySlots(motif, scale, section, key, progression, preset, sectionStartBar,
                     0, MelodyStart(rng)).motifs


\* section.name is intro, outro or bridge
IsSparse(section) == section.name \in { "intro", "outro", "bridge" }

\* The chord root of a bar, as generateBass and the root instruments take it.
BarRoot(key, progression, preset, bar) ==
    resolveChordFromTemplate(key, preset.scaleType,
                             TemplateAt(progression, preset, bar)).root

\* The events of one beat of generateBass, on its draws fifth, g and approach.
BassEvents(key, progression, preset, section, sectionStartBar, bar, beat, acc,
           fifth, g, approach) ==
    [rng |-> approach.rng,
     events |-> acc.events
         \o << NoteEvent(FormatTime(sectionStartBar + bar, beat, 0),
                         midiToName(BarRoot(key, progression, preset, bar) - 12
                                    + (IF fifth.v THEN 7 ELSE 0)),
                         IF IsSparse(section) THEN "2n" ELSE "4n",
                         Velocity("bass",
                                  << IF section.name = "chorus" THEN 92
                                     ELSE IF section.name = "verse" THEN 85 ELSE 70 >>,
                                  g.v), "bass") >>
         \o (IF approach.v /\ ChordBars(preset) = 1
             THEN << NoteEvent(FormatTime(sectionStartBar + bar, 3, 2),
                               midiToName(resolveChordFromTemplate(key, preset.scaleType,
                                              progression[((bar + 1) % Len(progression)) + 1]
                                          ).root - 12 - 1),
                               "8n", Velocity("fixed", << 60 >>, << >>), "bass") >>
             ELSE << >>)]

\* One beat of generateBass after its draws fifth and g.
BassApproach(key, progression, preset, section, sectionStartBar, bar, beat, acc, fifth, g) ==
    BassEvents(key, progression, preset, section, sectionStartBar, bar, beat, acc, fifth, g,
               IF beat = 3 /\ ~IsSparse(section) THEN RngChance(g.rng, 2000)
               ELSE [rng |-> g.rng, v |-> FALSE])

\* One beat of generateBass after its draw fifth.
BassFifth(key, progression, preset, section, sectionStartBar, bar, beat, acc, fifth) ==
    BassApproach(key, progression, preset, section, sectionStartBar, bar, beat, acc, fifth,
                 RngGaussian(fifth.rng))

\* One iteration of the beat loop of generateBass: acc = [rng, events].
BassBeat(key, progression, preset, section, sectionStartBar, bar, beat, acc) ==
    BassFifth(key, progression, preset, section, sectionStartBar, bar, beat, acc,
              IF beat = 2 /\ ~IsSparse(section) THEN RngChance(acc.rng, 2500)
              ELSE [rng |-> acc.rng, v |-> FALSE])

RECURSIVE BassBeats(_, _, _, _, _, _, _)
\* The beat loop of generateBass within one bar.
BassBeats(key, progression, preset, section, sectionStartBar, where, acc) ==
    IF where.beat >= 4 \/ ~Ready(acc) THEN acc
    ELSE BassBeats(key, progression, preset, section, sectionStartBar,
                   [where EXCEPT !.beat = @ + (IF section.name \in { "intro", "outro", "bridge" }
                                               THEN 2 ELSE 1)],
                   BassBeat(key, progression, preset, section, sectionStartBar,
                            where.bar, where.beat, acc))

RECURSIVE BassBars(_, _, _, _, _, _, _)
BassBars(key, progression, preset, section, sectionStartBar, bar, acc) ==
    IF bar >= section.bars \/ ~Ready(acc) THEN acc
    ELSE BassBars(key, progression, preset, section, sectionStartBar, bar + 1,
                  BassBeats(key, progression, preset, section, sectionStartBar,
                            [bar |-> bar, beat |-> 0], acc))

generateBass(rng, key, progression, preset, section, sectionStartBar) ==
    BassBars(key, progression, preset, section, sectionStartBar, 0,
             [rng |-> rng, events |-> << >>]).events

\* The chord tones of a bar two octaves up that lie in 72..84.
HighTones(tones) ==
    LET high(m) == m >= 72 /\ m <= 84
    IN  SelectSeq([i \in 1..Len(tones) |-> tones[i] + 24], high)

\* The note of a bar of generateTexture, on its draws.
TextureNote(highTones, barNumber, acc, idx, beat, sixteen, g) ==
    [rng |-> g.rng,
     events |-> Append(acc.events,
         NoteEvent(FormatTime(barNumber, beat.v, sixteen.v),
                   midiToName(highTones[idx.v + 1]), "4n",
                   Velocity("texture", << >>, g.v), "texture"))]

\* A bar of generateTexture after the draw play.  Each int() advances the
\* generator by one call of next().
TexturePlay(highTones, barNumber, acc, play) ==
    IF ~play.v THEN [acc EXCEPT !.rng = play.rng]
    ELSE TextureNote(highTones, barNumber, acc,
                     RngInt(play.rng, 0, Len(highTones) - 1),
                     RngInt(Advance(play.rng), 0, 3),
                     RngInt(Advance(Advance(play.rng)), 0, 3),
                     RngGaussian(Advance(Advance(Advance(play.rng)))))

\* A bar of generateTexture on the tones it may play.
TextureTones(highTones, density, barNumber, acc) ==
    IF Len(highTones) = 0 THEN acc
    ELSE TexturePlay(highTones, barNumber, acc, RngChance(acc.rng, density))

\* One iteration of the bar loop of generateTexture: acc = [rng, events].
TextureBar(key, progression, preset, section, sectionStartBar, bar, acc) ==
    TextureTones(HighTones(buildChord(BarRoot(key, progression, preset, bar),
                                      SoftQuality(preset,
                                          TemplateAt(progression, preset, bar)[2]))),
                 IF section.name = "chorus" THEN 5000
                 ELSE IF section.name = "verse" THEN 4000 ELSE 2500,
                 sectionStartBar + bar, acc)

RECURSIVE TextureBars(_, _, _, _, _, _, _)
\* The bar loop of generateTexture.
TextureBars(key, progression, preset, section, sectionStartBar, bar, acc) ==
    IF bar >= section.bars \/ ~Ready(acc) THEN acc
    ELSE TextureBars(key, progression, preset, section, sectionStartBar, bar + 1,
                     TextureBar(key, progression, preset, section, sectionStartBar,
                                bar, acc))

generateTexture(rng, key, progression, preset, section, sectionStartBar) ==
    IF section.name \in { "intro", "outro" } THEN << >>
    ELSE TextureBars(key, progression, preset, section, sectionStartBar, 0,
                     [rng |-> rng, events |-> << >>]).events

\* The events of the bars kept by RootNotes.
RootEvents(key, progression, preset, sectionStartBar, drop, vel, instrument, kept) ==
    ToSeq([i \in 1..Len(kept) |->
        NoteEvent(FormatTime(sectionStartBar + kept[i], 0, 0),
                  midiToName(BarRoot(key, progression, preset, kept[i]) - drop),
                  IF ChordBars(preset) = 2 THEN "2m" ELSE "1n",
                  Velocity("fixed", << vel >>, << >>), instrument)])

\* The bar loop shared in shape by generateContrabass and generateSubbass: a
\* note `drop` semitones under each bar's chord root, unless below `floor`.
RootNotes(key, progression, preset, section, sectionStartBar, drop, floor, vel, instrument) ==
    LET sounding(bar) == BarRoot(key, progression, preset, bar) - drop >= floor
    IN  RootEvents(key, progression, preset, sectionStartBar, drop, vel, instrument,
                   SelectSeq([b \in 1..section.bars |-> b - 1], sounding))

generateContrabass(key, progression, preset, section, sectionStartBar) ==
    IF section.name \in { "intro", "outro" } THEN << >>
    ELSE RootNotes(key, progression, preset, section, sectionStartBar,
                   12, 28, 65, "contrabass")

generateSubbass(key, progression, preset, section, sectionStartBar) ==
    IF section.name \in { "intro", "outro" } THEN << >>
    ELSE RootNotes(key, progression, preset, section, sectionStartBar,
                   24, 20, 70, "subbass")

\* A note of generateExtraInstrument, on the jitter g (none but for guitar).
ExtraEvent(instrumentId, note, isArpeggio, barNumber, sixteenth, acc, g) ==
    [rng |-> g.rng,
     events |-> Append(acc.events,
         NoteEvent(FormatTime(barNumber, sixteenth \div 4, sixteenth % 4),
                   midiToName(note),
                   IF instrumentId = "guitar" \/ isArpeggio THEN "8n" ELSE "1n",
                   Velocity(instrumentId, << >>, g.v), instrumentId))]

\* One iteration of the note loop of generateExtraInstrument: acc = [rng, events].
ExtraNote(instrumentId, chordNotes, isArpeggio, barNumber, i, acc) ==
    IF chordNotes[i] < 36 \/ chordNotes[i] > 84 THEN acc
    ELSE ExtraEvent(instrumentId, chordNotes[i], isArpeggio, barNumber,
                    IF isArpeggio THEN (i - 1) * 2 ELSE 0, acc,
                    IF instrumentId = "guitar" THEN RngGaussian(acc.rng)
                    ELSE [rng |-> acc.rng, v |-> << >>])

RECURSIVE ExtraNotes(_, _, _, _, _, _)
\* The note loop of generateExtraInstrument for one chord.
ExtraNotes(instrumentId, chordNotes, isArpeggio, barNumber, i, acc) ==
    IF i > Len(chordNotes) \/ ~Ready(acc) THEN acc
    ELSE ExtraNotes(instrumentId, chordNotes, isArpeggio, barNumber, i + 1,
                    ExtraNote(instrumentId, chordNotes, isArpeggio, barNumber, i, acc))

\* buildChord(root, q).map(n => n + (guitar ? 0 : 12))
RaisedChord(instrumentId, built) ==
    ToSeq([i \in 1..Len(built) |-> built[i] + (IF instrumentId = "guitar" THEN 0 ELSE 12)])

\* The notes of one chord of generateExtraInstrument.
ExtraChordNotes(instrumentId, root, q, mode) ==
    IF mode = "spread" THEN spreadChord(root, q)
    ELSE RaisedChord(instrumentId, buildChord(root, q))

\* A bar of generateExtraInstrument after its draws mode and arp.
ExtraChord(instrumentId, key, preset, barNumber, degree, q, acc, mode, arp) ==
    ExtraNotes(instrumentId,
               ExtraChordNotes(instrumentId,
                   resolveChordFromTemplate(key, preset.scaleType, << degree, q >>).root,
                   q, mode.v),
               arp.v, barNumber, 1, [rng |-> arp.rng, events |-> acc.events])

\* A bar of generateExtraInstrument after its draw mode.
ExtraMode(instrumentId, key, preset, barNumber, degree, q, acc, mode) ==
    ExtraChord(instrumentId, key, preset, barNumber, degree, q, acc, mode,
               IF instrumentId \in { "piano", "guitar" } THEN RngChance(mode.rng, 5000)
               ELSE [rng |-> mode.rng, v |-> FALSE])

\* One iteration of the bar loop of generateExtraInstrument: acc = [rng, events].
ExtraBar(instrumentId, key, progression, preset, section, sectionStartBar, bar, acc) ==
    ExtraMode(instrumentId, key, preset, sectionStartBar + bar,
              TemplateAt(progression, preset, bar)[1],
              SoftQuality(preset, TemplateAt(progression, preset, bar)[2]), acc,
              RngPick(acc.rng, OrElse(preset.chordVoicing, << "block" >>)))

RECURSIVE ExtraBars(_, _, _, _, _, _, _, _)
\* The bar loop of generateExtraInstrument.
ExtraBars(instrumentId, key, progression, preset, section, sectionStartBar, bar, acc) ==
    IF bar >= section.bars \/ ~Ready(acc) THEN acc
    ELSE ExtraBars(instrumentId, key, progression, preset, section, sectionStartBar,
                   bar + ChordBars(preset),
                   ExtraBar(instrumentId, key, progression, preset, section,
                            sectionStartBar, bar, acc))

generateExtraInstrument(rng, instrumentId, key, progression, preset, section, sectionStartBar) ==
    IF section.name \in { "intro", "outro" } THEN << >>
    ELSE ExtraBars(instrumentId, key, progression, preset, section, sectionStartBar,
                   0, [rng |-> rng, events |-> << >>]).events

\* A voice of a step of generateDrums after the draw keep.
DrumKept(acc, level, time, instrument, volume, keep) ==
    IF keep.v
    THEN [rng |-> keep.rng,
          events |-> Append(acc.events,
              DrumEvent(time, instrument,
                        Velocity(instrument, << level, volume >>, << >>)))]
    ELSE [acc EXCEPT !.rng = keep.rng]

\* One voice of one step of generateDrums: acc = [rng, events].
DrumHit(acc, level, thinOut, thinProb, time, instrument, volume) ==
    IF level <= 0 \/ ~Ready(acc) THEN acc
    ELSE DrumKept(acc, level, time, instrument, volume,
                  IF thinOut THEN RngChance(acc.rng, 10000 - thinProb)
                  ELSE [rng |-> acc.rng, v |-> TRUE])

\* One iteration of the step loop of generateDrums: acc = [rng, events].
DrumStep(pat, preset, thinOut, thinProb, barNumber, step, acc) ==
    DrumHit(DrumHit(DrumHit(acc, pat.kick[step + 1], thinOut, thinProb,
                            FormatTime(barNumber, step \div 4, step % 4),
                            "kick", preset.kickVolume),
                    pat.snare[step + 1], thinOut, thinProb,
                    FormatTime(barNumber, step \div 4, step % 4),
                    "snare", preset.snareVolume),
            pat.hihat[step + 1], thinOut, thinProb,
            FormatTime(barNumber, step \div 4, step % 4),
            "hihat", preset.hihatVolume)

RECURSIVE DrumSteps(_, _, _, _, _, _, _)
\* The step loop of generateDrums within one bar.
DrumSteps(pat, preset, thinOut, thinProb, barNumber, step, acc) ==
    IF step >= 16 \/ ~Ready(acc) THEN acc
    ELSE DrumSteps(pat, preset, thinOut, thinProb, barNumber, step + 1,
                   DrumStep(pat, preset, thinOut, thinProb, barNumber, step, acc))

RECURSIVE DrumBars(_, _, _, _, _, _, _, _)
DrumBars(pattern, fill, useFill, preset, section, sectionStartBar, bar, acc) ==
    IF bar >= section.bars \/ ~Ready(acc) THEN acc
    ELSE DrumBars(pattern, fill, useFill, preset, section, sectionStartBar, bar + 1,
             DrumSteps(IF bar = section.bars - 1 /\ useFill THEN fill ELSE pattern,
                       preset, section.name \in { "intro", "outro" },
                       IF section.name = "intro" THEN 6000 ELSE 7000,
                       sectionStartBar + bar, 0, acc))

\* generateDrums after its draws pattern, fill and useFill.
DrumsOf(preset, section, sectionStartBar, pattern, fill, useFill) ==
    DrumBars(pattern.v, fill.v, useFill.v, preset, section, sectionStartBar, 0,
             [rng |-> useFill.rng, events |-> << >>]).events

\* generateDrums after its draws pattern and fill.
DrumsFill(preset, section, sectionStartBar, pattern, fill) ==
    DrumsOf(preset, section, sectionStartBar, pattern, fill,
            IF section.name \notin { "intro", "outro" } /\ section.bars > 0
            THEN RngChance(fill.rng, 8000)
            ELSE [rng |-> fill.rng, v |-> FALSE])

\* Each pick() advances the generator by one call of next().
generateDrums(rng, preset, section, sectionStartBar) ==
    DrumsFill(preset, section, sectionStartBar,
              RngPick(rng, preset.drumPatterns), RngPick(Advance(rng), preset.drumFills))

\* generateFXParams(rng, preset): each parameter is a preset value scaled by
\* one draw; held as the five draws.
generateFXParams(rng, preset) ==
    [rng |-> Advance(Advance(Advance(Advance(Advance(rng))))),
     v |-> [reverbDecay |-> NextWord(rng),
            reverbMix |-> NextWord(Advance(rng)),
            delayMix |-> NextWord(Advance(Advance(rng))),
            filterCutoff |-> NextWord(Advance(Advance(Advance(rng)))),
            crackleMix |-> NextWord(Advance(Advance(Advance(Advance(rng)))))]]

sectionPadVolume(section) ==
    IF section.name = "intro" THEN 0 - 12
    ELSE IF section.name = "outro" THEN 0 - 9 ELSE 0

DefaultExtraInstruments ==
    << [id |-> "piano", probability |-> 4000], [id |-> "violin", probability |-> 2500],
       [id |-> "guitar", probability |-> 2000] >>

\* The body of the loop over extraInstruments in generateSong, on the chance
\* c it draws: acc = [rng, events].
ExtraInstrument(extra, key, progression, preset, section, startBar, acc, c) ==
    [rng |-> c.rng,
     events |-> IF c.v
                THEN acc.events \o
                     generateExtraInstrument(RngFork(c.rng), extra.id,
                         key, progression, preset, section, startBar)
                ELSE acc.events]

RECURSIVE ExtraInstruments(_, _, _, _, _, _, _, _)
\* The loop over extraInstruments in generateSong.
ExtraInstruments(extras, key, progression, preset, section, startBar, i, acc) ==
    IF i > Len(extras) \/ ~Ready(acc) THEN acc
    ELSE ExtraInstruments(extras, key, progression, preset, section, startBar, i + 1,
                          ExtraInstrument(extras[i], key, progression, preset, section,
                                          startBar, acc,
                                          RngChance(acc.rng, extras[i].probability)))

\* const local = d.v, where the call that returned d.v left the generator as
\* d.rng: call is the activation record of generateSong.
Assign(call, local, d) == (local :> d.v) @@ [call EXCEPT !.rng = d.rng]

\* const preset = pickPreset(rng)
SongPreset(call) == Assign(call, "preset", pickPreset(call.rng))

\* const key = pickKey(rng, preset)
SongKey(call) == Assign(call, "key", pickKey(call.rng, call.preset))

\* const tempo = pickTempo(rng, preset)
SongTempo(call) == Assign(call, "tempo", pickTempo(call.rng, call.preset))

\* const scale = buildScale(key, preset.scaleType)
SongScale(call) == [scale |-> buildScale(call.key, call.preset.scaleType)] @@ call

\* const { names, bars } = pickStructure(rng)
SongStructure(call) == pickStructure(call.rng) @@ call

\* const progression = pickProgression(rng, preset)
SongProgression(call) ==
    Assign(call, "progression", pickProgression(call.rng, call.preset))

\* const motif = generateMotif(rng.fork(), scale, preset.motifLength)
SongMotif(call) ==
    [motif |-> generateMotif(RngFork(call.rng), call.scale, call.preset.motifLength)]
        @@ call

\* generateSong up to its section loop: the activation's locals.
generateSongBegin(seed) ==
    SongMotif(SongProgression(SongStructure(SongScale(SongTempo(SongKey(SongPreset(
        [pc |-> "sections", seed |-> seed, rng |-> NewRng(seed),
         sections |-> << >>, startBar |-> 0, i |-> 1])))))))

\* The section of the iteration: name, startBar and bars.
SectionOf(call) ==
    [name |-> call.names[call.i], startBar |-> call.startBar, bars |-> call.bars[call.i]]

\* resolveChords(key, progression, preset, startBar, sectionBars, rng): the
\* events of the section so far, acc = [rng, events].
SectionChords(call) ==
    resolveChords(call.key, call.progression, call.preset, call.startBar,
                  call.bars[call.i], call.rng)

\* generateMelody, generateBass and generateTexture, each on a fork of the
\* song's generator.
SectionVoices(call, acc) ==
    [acc EXCEPT !.events =
        @ \o generateMelody(RngFork(acc.rng), call.motif, call.scale, SectionOf(call),
                            call.key, call.progression, call.preset, call.startBar)
          \o generateBass(RngFork(acc.rng), call.key, call.progression, call.preset,
                          SectionOf(call), call.startBar)
          \o generateTexture(RngFork(acc.rng), call.key, call.progression, call.preset,
                             SectionOf(call), call.startBar)]

\* A gate whose layer, when emitted, draws once more from the song's generator.
SectionRootDrawing(acc, c, events) ==
    [rng |-> IF c.v THEN Advance(c.rng) ELSE c.rng,
     events |-> IF c.v THEN acc.events \o events ELSE acc.events]

\* if (rng.chance(p)) allInstrumentEvents.push(...events), on the draw c.
SectionRoot(acc, c, events) ==
    [rng |-> c.rng, events |-> IF c.v THEN acc.events \o events ELSE acc.events]

\* if (rng.chance(0.6)) ... generateSubbass(...)
SectionSub(call, acc) ==
    SectionRoot(acc, RngChance(acc.rng, 6000),
                generateSubbass(call.key, call.progression, call.preset,
                                SectionOf(call), call.startBar))

\* if (rng.chance(0.35)) ... generateContrabass(...)
SectionContra(call, acc) ==
    SectionRoot(acc, RngChance(acc.rng, 3500),
                generateContrabass(call.key, call.progression, call.preset,
                                   SectionOf(call), call.startBar))

\* The loop over preset.extraInstruments ?? DEFAULT_EXTRA_INSTRUMENTS.
SectionExtras(call, acc) ==
    ExtraInstruments(OrElse(call.preset.extraInstruments, DefaultExtraInstruments),
                     call.key, call.progression, call.preset, SectionOf(call),
                     call.startBar, 1, acc)

\* The drums, the pad volume, sections.push(section) and
\* startBar += sectionBars.
SectionPush(call, acc) ==
    [call EXCEPT
        !.rng = acc.rng,
        !.sections = Append(@,
            [name |-> call.names[call.i], startBar |-> call.startBar,
             bars |-> call.bars[call.i],
             instrumentEvents |-> acc.events,
             drumEvents |-> generateDrums(RngFork(acc.rng), call.preset, SectionOf(call),
                                          call.startBar),
             padVolume |-> sectionPadVolume(SectionOf(call))]),
        !.startBar = call.startBar + call.bars[call.i],
        !.i = call.i + 1]

\* One iteration of the section loop of generateSong.
generateSongSection(call) ==
    SectionPush(call,
        SectionExtras(call,
            SectionContra(call,
                SectionSub(call,
                    SectionVoices(call, SectionChords(call))))))

\* The return of generateSong on its effects parameters fx.
SongReturn(call, fx) ==
    [call |-> [call EXCEPT !.pc = "returned", !.rng = fx.rng],
     song |-> [seed |-> call.seed, preset |-> call.preset.name, key |-> call.key,
               tempo |-> call.tempo, swing |-> call.preset.swing,
               sections |-> call.sections, totalBars |-> call.startBar,
               fxParams |-> fx.v]]

\* The rest of generateSong: [call after the return, song returned].
generateSongEnd(call) == SongReturn(call, generateFXParams(call.rng, call.preset))

-----------------------------------------------------------------------------
(* Two calls of generateSong with the same seed, one after the other.  A    *)
(* call is its activation record (gCall); the record of a call that has     *)
(* returned stays behind, as the objects of a finished call do.             *)

\* The seeds generateSong is called with: the first ones, and one whose
\* motif of eight notes is longer than a two-bar slot.
GenSeeds == (0..MaxGenSeed) \cup { 2594 }

GenInit ==
    /\ EngineInit
    /\ HarnessIdle
    /\ gSeed \in GenSeeds
    /\ gCall = NoCall
    /\ gReturned = << >>

\* generateSong(gSeed) is called: the code before the section loop.
GenCall ==
    /\ gCall.pc \in { "idle", "returned" }
    /\ Len(gReturned) < 2
    /\ gCall' = generateSongBegin(gSeed)
    /\ UNCHANGED << gSeed, gReturned, engineVars, transportVars, harnessVars >>

\* One iteration of the section loop.
GenSection ==
    /\ gCall.pc = "sections"
    /\ gCall.i <= Len(gCall.names)
    /\ gCall' = generateSongSection(gCall)
    /\ UNCHANGED << gSeed, gReturned, engineVars, transportVars, harnessVars >>

\* The loop is over: fxParams, and the song is returned.
GenReturn ==
    /\ gCall.pc = "sections"
    /\ gCall.i > Len(gCall.names)
    /\ \E done \in { generateSongEnd(gCall) } :
           /\ gCall' = done.call
           /\ gReturned' = Append(gReturned, done.song)
    /\ UNCHANGED << gSeed, engineVars, transportVars, harnessVars >>

GenNext == GenCall \/ GenSection \/ GenReturn

GenSpec == GenInit /\ [][GenNext]_vars

SameSection(a, b) ==
    /\ a.name = b.name
    /\ a.startBar = b.startBar
    /\ a.bars = b.bars
    /\ Len(a.instrumentEvents) = Len(b.instrumentEvents)
    /\ \A k \in 1..Len(a.instrumentEvents) :
           /\ a.instrumentEvents[k].time = b.instrumentEvents[k].time
           /\ a.instrumentEvents[k].note = b.instrumentEvents[k].note
           /\ a.instrumentEvents[k].duration = b.instrumentEvents[k].duration
           /\ a.instrumentEvents[k].velocity = b.instrumentEvents[k].velocity
           /\ a.instrumentEvents[k].instrument = b.instrumentEvents[k].instrument
    /\ Len(a.drumEvents) = Len(b.drumEvents)
    /\ \A k \in 1..Len(a.drumEvents) :
           /\ a.drumEvents[k].time = b.drumEvents[k].time
           /\ a.drumEvents[k].instrument = b.drumEvents[k].instrument
           /\ a.drumEvents[k].velocity = b.drumEvents[k].velocity

BarsBefore(song, i) == SumSeq([k \in 1..(i - 1) |-> song.sections[k].bars])

\* C11: in every song generateSong returns, every section has bars > 0, the
\* startBar of a section is the sum of the bars of the sections before it (0
\* for the first), and the bars of all sections sum to totalBars.
BarAccounting ==
    \A n \in 1..Len(gReturned) :
        /\ \A i \in 1..Len(gReturned[n].sections) :
               /\ gReturned[n].sections[i].bars > 0
               /\ gReturned[n].sections[i].startBar = BarsBefore(gReturned[n], i)
        /\ gReturned[n].totalBars
               = BarsBefore(gReturned[n], Len(gReturned[n].sections) + 1)

\* A song of seven sections has returned whose sections differ in length.
BarAccountingWitness ==
    \E n \in 1..Len(gReturned) :
        /\ Len(gReturned[n].sections) = 7
        /\ gReturned[n].sections[7].startBar > 20
        /\ \E i, j \in 1..7 :
               gReturned[n].sections[i].bars # gReturned[n].sections[j].bars

\* The motifs the melody of the next section of a call lays out.
SectionMotifs(call) ==
    melodyMotifs(RngFork(SectionChords(call).rng), call.motif, call.scale,
                 SectionOf(call), call.key, call.progression, call.preset, call.startBar)

\* Every degree of motif m is a rest or a degree of a scale of the length.
MotifInScale(m, scaleLength) ==
    \A i \in 1..Len(m.degrees) :
        m.degrees[i] = 0 - 1 \/ (0 <= m.degrees[i] /\ m.degrees[i] <= scaleLength - 1)

\* C12: the scale of a song has 5 degrees when pentatonic and 7 otherwise,
\* and every degree of the song's motif and of every motif a section's melody
\* lays out (after varyMotif, invertMotif or fragmentMotif) is -1 or lies in
\* 0 .. scaleLength - 1.
MotifBounds ==
    gCall.pc = "sections" =>
        /\ Len(gCall.scale)
               = (IF gCall.preset.scaleType \in { "pentatonic", "minPenta" } THEN 5 ELSE 7)
        /\ MotifInScale(gCall.motif, Len(gCall.scale))
        /\ gCall.i <= Len(gCall.names) =>
               \A k \in 1..Len(SectionMotifs(gCall)) :
                   MotifInScale(SectionMotifs(gCall)[k], Len(gCall.scale))

\* C30: the inversion of the song's motif that a chorus lays out has a rest
\* (-1) exactly where the motif has a rest: invertMotif maps every rest to a
\* rest and every pitched degree to a degree that is not the rest sentinel.
InversionKeepsNotes ==
    (gCall.pc = "sections" /\ gCall.i <= Len(gCall.names)
        /\ SectionOf(gCall).name = "chorus") =>
        /\ Len(invertMotif(gCall.motif).degrees) = Len(gCall.motif.degrees)
        /\ \A i \in 1..Len(gCall.motif.degrees) :
               (invertMotif(gCall.motif).degrees[i] = 0 - 1)
                   <=> (gCall.motif.degrees[i] = 0 - 1)

-----------------------------------------------------------------------------
(* Chord resolution alone: resolveChordFromTemplate applied to a key, a     *)
(* scale type and a progression template.                                   *)

DIATONIC_MAJOR == << "maj7", "min7", "min7", "maj7", "dom7", "min7", "m7b5" >>

DIATONIC_MINOR == << "min7", "m7b5", "maj7", "min7", "min7", "maj7", "dom7" >>

\* diatonicChord(key, scaleType, degree).quality
diatonicChordQuality(scaleType, degree) ==
    LET diatonic == IF scaleType \in { "minor", "minPenta", "dorian" }
                    THEN DIATONIC_MINOR ELSE DIATONIC_MAJOR
        normDegree == ((((degree - 1) % 7) + 7) % 7) + 1
    IN  diatonic[normDegree]

\* The keys, scale types and templates of the presets.
PresetKeys == UNION { Range(PRESETS[p].keys) : p \in 1..Len(PRESETS) }

ScaleTypes == DOMAIN CHORD_SCALES

PresetTemplates ==
    UNION { UNION { Range(progression) : progression \in Range(PRESETS[p].progressions) } :
                p \in 1..Len(PRESETS) }

\* The pitch class of a key's tonic: its letter, raised by "#" and lowered
\* by "b"; a final "m" names the minor key of the same tonic.
KeyTonic(key) ==
    LET accidental == IF Len(key) >= 2 /\ key[2] = "#" THEN 1
                      ELSE IF Len(key) >= 2 /\ key[2] = "b" THEN 11
                      ELSE 0
    IN  (NoteIndex(<< key[1] >>) + accidental) % 12

\* The pitch class of a degree (1-based) of the key's seven-note scale.
DegreePitchClass(key, scaleType, degree) ==
    (KeyTonic(key) + CHORD_SCALES[scaleType][((((degree - 1) % 7) + 7) % 7) + 1]) % 12

ChordInit ==
    /\ EngineInit
    /\ HarnessIdle
    /\ gSeed = 0
    /\ gCall \in [pc : { "resolve" }, key : PresetKeys, scaleType : ScaleTypes,
                  template : PresetTemplates]
    /\ gReturned = << >>

\* resolveChordFromTemplate(key, scaleType, template) is called and returns.
ChordResolve ==
    /\ gCall.pc = "resolve"
    /\ gCall' = [gCall EXCEPT !.pc = "resolved"]
    /\ gReturned' = << resolveChordFromTemplate(gCall.key, gCall.scaleType,
                                                gCall.template) >>
    /\ UNCHANGED << gSeed, engineVars, transportVars, harnessVars >>

ChordNext == ChordResolve

ChordSpec == ChordInit /\ [][ChordNext]_vars

\* C18: for every key, scale type and template [degree, quality], the chord
\* resolved is rooted on that degree of the key's scale and its quality is
\* the one the diatonic table of the scale family gives for the degree; so
\* in key C of a major scale a first-degree template gives a chord rooted at
\* pitch class 0 with the major table's quality for degree 1.
ChordResolution ==
    gCall.pc = "resolved" =>
        /\ gReturned[1].root % 12
               = DegreePitchClass(gCall.key, gCall.scaleType, gCall.template[1])
        /\ gReturned[1].quality
               = diatonicChordQuality(gCall.scaleType, gCall.template[1])

\* C28: for every key of the presets, the tonic nameToMidi gives for the key
\* has the pitch class the key names, and with it the first degree of the
\* scale buildScale builds and the root of the first-degree chord
\* diatonicChord resolves.
KeyResolvesToTonic ==
    gCall.pc = "resolved" =>
        /\ nameToMidi(gCall.key \o << "4" >>) % 12 = KeyTonic(gCall.key)
        /\ buildScale(gCall.key, gCall.scaleType)[1] = KeyTonic(gCall.key)
        /\ diatonicChordRoot(gCall.key, gCall.scaleType, 1) % 12 = KeyTonic(gCall.key)
        /\ gReturned[1].root % 12
               = DegreePitchClass(gCall.key, gCall.scaleType, gCall.template[1])

-----------------------------------------------------------------------------
(* Rng.fork alone: two streams made from one seed and drawn alike, each     *)
(* forked once; the children and one parent then draw in any order.         *)

\* How many draws the parents make before the fork, and each stream after.
MaxForkDraws == 3

\* A fork that seeds the child with a draw of the parent.
forkByDraw(streams, parent) ==
    [streams |-> Append([streams EXCEPT ![parent] = Advance(@)], NextWord(streams[parent])),
     child |-> Len(streams) + 1]

\* A fork that hands out the parent itself.
forkAlias(streams, parent) == [streams |-> Append(streams, streams[parent]), child |-> parent]

\* A fork whose child starts one draw ahead of the parent.
forkAhead(streams, parent) ==
    [streams |-> Append(streams, Advance(RngFork(streams[parent]))), child |-> Len(streams) + 1]

\* fork(): a new Rng whose state is the parent's, as an int32.
forkStream(streams, parent) ==
    [streams |-> Append(streams, RngFork(streams[parent])), child |-> Len(streams) + 1]

\* next() on stream s of the call: the stream advances, the draw is logged.
forkDraw(call, s, log) ==
    [call EXCEPT !.streams[s] = RngNext(call.streams[s]).rng,
                 ![log] = Append(@, RngNext(call.streams[s]).u)]

ForkInit ==
    /\ EngineInit
    /\ HarnessIdle
    /\ gSeed \in 0..MaxGenSeed
    /\ gCall = [pc |-> "parents", streams |-> << NewRng(gSeed), NewRng(gSeed) >>,
                childA |-> 0, childB |-> 0,
                drawsA |-> << >>, drawsB |-> << >>, drawsParent |-> << >>,
                warm |-> << >>]
    /\ gReturned = << >>

\* Both parents make the same draw before they are forked.
ForkWarm ==
    /\ gCall.pc = "parents"
    /\ Len(gCall.warm) < MaxForkDraws
    /\ gCall' = [forkDraw(gCall, 1, "warm")
                    EXCEPT !.streams[2] = RngNext(gCall.streams[2]).rng]
    /\ UNCHANGED << gSeed, gReturned, engineVars, transportVars, harnessVars >>

\* const a = p.fork(); const b = q.fork()
ForkParents ==
    /\ gCall.pc = "parents"
    /\ \E a \in { forkStream(gCall.streams, 1) } :
       \E b \in { forkStream(a.streams, 2) } :
           gCall' = [gCall EXCEPT !.pc = "children", !.streams = b.streams,
                                  !.childA = a.child, !.childB = b.child]
    /\ UNCHANGED << gSeed, gReturned, engineVars, transportVars, harnessVars >>

\* a.next()
ForkDrawA ==
    /\ gCall.pc = "children"
    /\ Len(gCall.drawsA) < MaxForkDraws
    /\ gCall' = forkDraw(gCall, gCall.childA, "drawsA")
    /\ UNCHANGED << gSeed, gReturned, engineVars, transportVars, harnessVars >>

\* b.next()
ForkDrawB ==
    /\ gCall.pc = "children"
    /\ Len(gCall.drawsB) < MaxForkDraws
    /\ gCall' = forkDraw(gCall, gCall.childB, "drawsB")
    /\ UNCHANGED << gSeed, gReturned, engineVars, transportVars, harnessVars >>

\* p.next() after the fork: the first parent goes on drawing.
ForkDrawParent ==
    /\ gCall.pc = "children"
    /\ Len(gCall.drawsParent) < MaxForkDraws
    /\ gCall' = forkDraw(gCall, 1, "drawsParent")
    /\ UNCHANGED << gSeed, gReturned, engineVars, transportVars, harnessVars >>

ForkNext == ForkWarm \/ ForkParents \/ ForkDrawA \/ ForkDrawB \/ ForkDrawParent

ForkSpec == ForkInit /\ [][ForkNext]_vars

RECURSIVE AdvanceBy(_, _)
\* The state of a stream after n draws.
AdvanceBy(state, n) == IF n = 0 THEN state ELSE AdvanceBy(Advance(state), n - 1)

\* The gates of the optional layers of a section: sub-bass, contrabass and
\* one for every extra instrument of the preset.
LayerGates(call) ==
    2 + Len(OrElse(call.preset.extraInstruments, DefaultExtraInstruments))

\* The song's generator after a section in which no layer consumed anything
\* but the one draw of its gate.
AfterGates(call) == AdvanceBy(SectionChords(call).rng, LayerGates(call))

\* C22: the state of the song's generator after a section is its state after
\* the section's chords advanced by one draw for every optional-layer gate,
\* whatever the melody, bass, texture, extras and drums drew and whichever
\* layers were emitted; and the section's drums are generated from a fork of
\* that state, so they and the later sections are the same with a layer
\* present or absent.
LayersDoNotDisturb ==
    [][(gCall.pc = "sections" /\ gCall'.pc = "sections" /\ gCall'.i = gCall.i + 1) =>
           /\ gCall'.rng = AfterGates(gCall)
           /\ gCall'.sections[gCall.i].drumEvents
                  = generateDrums(RngFork(AfterGates(gCall)), gCall.preset,
                                  SectionOf(gCall), gCall.startBar)]_vars

\* Whether a section holds an event of an instrument.
HasLayer(section, instrument) ==
    \E i \in 1..Len(section.instrumentEvents) :
        section.instrumentEvents[i].instrument = instrument

\* A song in progress in which the sub-bass was emitted in one section and
\* not in another, and an extra instrument in one section and not in another.
LayersDoNotDisturbWitness ==
    /\ gCall.pc = "sections"
    /\ \E i, j \in 1..Len(gCall.sections) :
           /\ HasLayer(gCall.sections[i], "subbass")
           /\ ~HasLayer(gCall.sections[j], "subbass")
           /\ Len(gCall.sections[j].drumEvents) > 0
    /\ \E i, j \in 1..Len(gCall.sections) :
           /\ HasLayer(gCall.sections[i], "piano")
           /\ ~HasLayer(gCall.sections[j], "piano")

\* The root of the chord the pad plays over bar `bar` of a section that
\* starts at startBar: the progression entry resolveChords takes for it.
PadChordRoot(call, startBar, bar) ==
    resolveChordFromTemplate(call.key, call.preset.scaleType,
        TemplateAt(call.progression, call.preset,
                   ((bar - startBar) \div ChordBars(call.preset)) * ChordBars(call.preset))).root

\* C23: for every melody note of a generated section, at absolute bar b of
\* that section, the chord whose root, third and fifth decide the velocity
\* boost is the chord the pad plays over bar b of the section.
MelodyAccentChord ==
    gCall.pc = "sections" =>
        \A k \in 1..Len(gCall.sections) :
        \A n \in 1..Len(gCall.sections[k].instrumentEvents) :
            LET e == gCall.sections[k].instrumentEvents[n]
                b == TimeParts(e.time)[1]
            IN  (e.instrument = "melody"
                     /\ b < gCall.sections[k].startBar + gCall.sections[k].bars)
                => chordAtBar(gCall.key, gCall.progression, gCall.preset, b)
                       = PadChordRoot(gCall, gCall.sections[k].startBar, b)

\* C24: fork() leaves the parent's state as it was and the child starts in
\* exactly that state; afterwards a draw on a child changes no other stream
\* (its parent included), and a draw on a parent changes no child.
ForkCopies ==
    [][/\ (gCall.pc = "parents" /\ gCall'.pc = "children") =>
              /\ gCall'.streams[1] = gCall.streams[1]
              /\ gCall'.streams[2] = gCall.streams[2]
              /\ gCall'.childA \notin { 1, 2 }
              /\ gCall'.childB \notin { 1, 2, gCall'.childA }
              /\ gCall'.streams[gCall'.childA] = gCall.streams[1]
              /\ gCall'.streams[gCall'.childB] = gCall.streams[2]
       /\ (gCall.pc = "children" /\ gCall'.drawsA # gCall.drawsA) =>
              \A s \in DOMAIN gCall.streams \ { gCall.childA } :
                  gCall'.streams[s] = gCall.streams[s]
       /\ (gCall.pc = "children" /\ gCall'.drawsB # gCall.drawsB) =>
              \A s \in DOMAIN gCall.streams \ { gCall.childB } :
                  gCall'.streams[s] = gCall.streams[s]
       /\ (gCall.pc = "children" /\ gCall'.drawsParent # gCall.drawsParent) =>
              \A s \in DOMAIN gCall.streams \ { 1 } :
                  gCall'.streams[s] = gCall.streams[s]]_vars

\* After the fork one child has drawn twice and the first parent once, the
\* other child and the other parent not at all: the four streams are in
\* three different states.
ForkCopiesWitness ==
    /\ gCall.pc = "children"
    /\ Len(gCall.warm) = 1
    /\ Len(gCall.drawsA) = 2
    /\ Len(gCall.drawsB) = 0
    /\ Len(gCall.drawsParent) = 1
    /\ gCall.streams[gCall.childB] = gCall.streams[2]
    /\ gCall.streams[gCall.childA] # gCall.streams[1]
    /\ gCall.streams[1] # gCall.streams[2]
    /\ gCall.streams[gCall.childA] # gCall.streams[gCall.childB]

\* Whether the bar of an event's time lies in the section.
InsideSection(section, e) ==
    /\ TimeParts(e.time)[1] >= section.startBar
    /\ TimeParts(e.time)[1] < section.startBar + section.bars

\* C26: every instrument and drum event stored in a section of a generated
\* song has its bar in [startBar, startBar + bars) of that section, and so
\* lies before totalBars:0:0, where the song end is registered.
EventsInsideSection ==
    gCall.pc = "sections" =>
        \A k \in 1..Len(gCall.sections) :
            /\ \A n \in 1..Len(gCall.sections[k].instrumentEvents) :
                   InsideSection(gCall.sections[k], gCall.sections[k].instrumentEvents[n])
            /\ \A n \in 1..Len(gCall.sections[k].drumEvents) :
                   InsideSection(gCall.sections[k], gCall.sections[k].drumEvents[n])

\* C29: a stream returned by fork() draws what its parent draws from the
\* fork point on: the n-th draw of the child equals the n-th draw the parent
\* makes after the fork, for every n both have made; and a second fork of the
\* parent, taken while the parent has not drawn since the first, draws what
\* the first child has drawn.
ForkReplays ==
    gCall.pc = "children" =>
        /\ \A n \in 1..Min(Len(gCall.drawsA), Len(gCall.drawsParent)) :
               gCall.drawsA[n] = gCall.drawsParent[n]
        /\ gCall.drawsParent = << >> =>
               \A n \in 1..Len(gCall.drawsA) :
                   RngNext(AdvanceBy(forkStream(gCall.streams, 1).streams[
                                         forkStream(gCall.streams, 1).child],
                                     n - 1)).u
                       = gCall.drawsA[n]

ForkReplaysWitness ==
    /\ gCall.pc = "children"
    /\ gSeed > 1
    /\ Len(gCall.warm) = 1
    /\ Len(gCall.drawsB) = 0
    /\ Len(gCall.drawsA) = MaxForkDraws
    /\ Len(gCall.drawsParent) = MaxForkDraws - 1
    /\ gCall.drawsParent[1] # gCall.drawsParent[2]
    /\ gCall.drawsA[MaxForkDraws] # gCall.drawsParent[MaxForkDraws - 1]
    /\ gCall.streams[gCall.childA] = Advance(gCall.streams[1])

=============================================================================
